---- MODULE Spec2Model ----
(***************************************************************************)
(* PageSense backend: the content extraction and chunking pipeline         *)
(* (services/content_extractor.py), the context assembler                  *)
(* (services/llm_service.py) and the endpoints that drive them             *)
(* (api/v1/extract.py, api/v1/qa.py).                                      *)
(*                                                                         *)
(* A Python str is a sequence of one-character strings.  Python offsets    *)
(* are 0-based, TLA+ sequences are 1-based: Python's text[i] is text[i+1]. *)
(*                                                                         *)
(* TLC keeps the fields of a record in the order in which the module first *)
(* names them and reorders, on first use, a record written in another      *)
(* order; with several workers a second worker can read the record while   *)
(* it is being reordered.  Every record below is therefore written with    *)
(* its fields in that order, which is not always the order of the source.  *)
(***************************************************************************)
EXTENDS Integers, Sequences, FiniteSets, TLC

VARIABLES
    \* ContentExtractor._create_chunks: arguments, locals, position
    text, url, chunk_size, overlap, start, chunk_index, chunks, cpc,
    \* history of the windows [start, end) the loop has computed so far
    windows,
    \* LLMService._prepare_context: arguments, locals, result, position
    achunks, max_chars, context_parts, total_chars, context, apc,
    \* ContentExtractor._redact_sensitive: argument, running text, patterns applied
    rinput, rtext, rapplied,
    \* ContentExtractor.extract_from_html, detect_sensitive_inputs: arguments and
    \* returned value
    ehtml, eurl, eresult,
    \* the backend: Redis counters, the chats table with its messages, the
    \* request being handled with the handler's locals, the response to it, the
    \* calls the handler made for it, and the number of requests for pages and
    \* answers taken so far
    redis, chats, req, response, calls, served,
    \* the create_chat requests in progress with their locals, and the last id
    \* the database gave to a chat
    creating, chats_id_seq,
    \* the request whose handler ran last, as it came in: the endpoint, the
    \* authenticated user and the chat it names (0 for none)
    asked,
    \* the vector store: the points of the collection by id, and the last
    \* search with its arguments and what it returned
    points, hits,
    \* Redis again: the seconds each rate-limit key has left to live (0: no
    \* key), and the seconds since the last request on it (RateWindow: that
    \* long or longer)
    expires, quiet

chunkVars == <<text, url, chunk_size, overlap, start, chunk_index, chunks, cpc, windows>>

assemblerVars == <<achunks, max_chars, context_parts, total_chars, context, apc>>

redactVars == <<rinput, rtext, rapplied>>

extractVars == <<ehtml, eurl, eresult>>

apiVars == <<redis, chats, req, response, calls, served, creating, chats_id_seq, asked>>

vectorVars == <<points, hits>>

rateVars == <<expires, quiet>>

vars == <<chunkVars, assemblerVars, redactVars, extractVars, apiVars, vectorVars, rateVars>>

----------------------------------------------------------------------------
(* A component that is not running holds these values *)

\* the chunker is not running
ChunkerIdle ==
    /\ text = <<>>
    /\ url = ""
    /\ chunk_size = 0
    /\ overlap = 0
    /\ start = 0
    /\ chunk_index = 0
    /\ chunks = <<>>
    /\ windows = <<>>
    /\ cpc = "idle"

\* the context assembler is not running
AssemblerIdle ==
    /\ achunks = <<>>
    /\ max_chars = 0
    /\ context_parts = <<>>
    /\ total_chars = 0
    /\ context = <<>>
    /\ apc = "idle"

\* the redactor is not running
RedactorIdle ==
    /\ rinput = <<>>
    /\ rtext = <<>>
    /\ rapplied = 0

\* extract_from_html has not been called
ExtractorIdle ==
    /\ ehtml = <<>>
    /\ eurl = ""
    /\ eresult = [kind |-> "none"]

\* no request has been served
ApiIdle ==
    /\ redis = <<>>
    /\ chats = <<>>
    /\ req = [pc |-> "idle"]
    /\ response = [status |-> 0]
    /\ calls = <<>>
    /\ served = 0
    /\ creating = <<>>
    /\ chats_id_seq = 0
    /\ asked = [op |-> "none"]

\* the collection is empty and nothing has been searched
VectorIdle ==
    /\ points = <<>>
    /\ hits = [kind |-> "none"]

----------------------------------------------------------------------------
(* Bounds of the model *)

MaxLen == 5          \* longest text of the small chunker configurations
MaxSize == 4         \* largest chunk_size / overlap of those configurations
MaxWindows == 6      \* loop iterations followed before the model stops
MaxRuns == 3         \* runs of equal characters in a text chunked with the defaults
MaxChunks == 4       \* chunks handed to the context assembler
MaxPartLen == 3      \* longest chunk text handed to the context assembler
MaxBudget == 4       \* largest max_chars handed to the context assembler
MaxTokens == 3       \* tokens in a text handed to the redactor
MaxElements == 2     \* elements in the body of a page handed to the extractor
MaxRequestUrls == 6  \* longest list of urls in a multi-page request
MaxRequests == 1     \* requests the backend takes in one behaviour

(* Program constants *)

DefaultChunkSize == 1000
DefaultOverlap == 200
SentenceWindow == 200
DefaultMaxChars == 8000
PageTextLimit == 2000
SourceTextLimit == 200
ComparedSources == 2
MinCompared == 2
MaxCompared == 5
RATE_LIMIT_PER_MINUTE == 60
RateWindow == 60

\* the rate-limit keys of a store: the keys that are not md5 cache keys
RateKeysOf(store) == {key \in DOMAIN store : key[1] # "md5"}

\* every counter above 0 was incremented just now: its key has the whole
\* window to live
RatesFresh ==
    /\ expires = [key \in RateKeysOf(redis) |-> IF redis[key] = 0 THEN 0 ELSE RateWindow]
    /\ quiet = [key \in RateKeysOf(redis) |-> IF redis[key] = 0 THEN RateWindow ELSE 0]

----------------------------------------------------------------------------
(* Python built-ins *)

Min(a, b) == IF a < b THEN a ELSE b
Max(a, b) == IF a > b THEN a ELSE b

SetMin(S) == CHOOSE x \in S : \A y \in S : x <= y
SetMax(S) == 0 - SetMin({0 - x : x \in S})

Whitespace == {" ", "\n", "\t"}

\* s[i] raises IndexError unless -len(s) <= i < len(s)
PyInRange(s, i) == -Len(s) <= i /\ i < Len(s)

\* s[i], a negative i counting from the end
PyIndex(s, i) == IF i < 0 THEN s[i + Len(s) + 1] ELSE s[i + 1]

\* a slice bound: negative bounds count from the end, all bounds clamp to [0, len]
PyBound(i, n) == IF i < 0 THEN Max(i + n, 0) ELSE Min(i, n)

\* s[a:b]
PySlice(s, a, b) ==
    LET lo == PyBound(a, Len(s))
        hi == PyBound(b, Len(s))
    IN  IF lo < hi THEN SubSeq(s, lo + 1, hi) ELSE <<>>

\* s.lstrip(): the trailing whitespace kept
StripLeading(s) ==
    LET keep == {k \in 1..Len(s) : s[k] \notin Whitespace}
    IN  IF keep = {} THEN <<>> ELSE SubSeq(s, SetMin(keep), Len(s))

\* s.strip()
Strip(s) ==
    LET keep == {k \in 1..Len(s) : s[k] \notin Whitespace}
    IN  IF keep = {} THEN <<>> ELSE SubSeq(s, SetMin(keep), SetMax(keep))

\* c * n
Repeat(c, n) == [k \in 1..n |-> c]

\* sub in s
Occurs(sub, s) ==
    \E i \in 0..(Len(s) - Len(sub)) : SubSeq(s, i + 1, i + Len(sub)) = sub

----------------------------------------------------------------------------
(* ContentExtractor._create_chunks *)

Terminators == {".", "!", "?"}

\* hashlib.md5(f"{url}:{chunk_index}").hexdigest()[:16]: a digest of the pair
ChunkId(u, index) == <<"md5", u, index>>

\* for i in range(from, stop, -1): if text[i] in '.!?': ... break
\* The loop visits from, from - 1, ..., stop + 1 and ends at the first index
\* that holds a terminator or that text[i] cannot read: the largest such index.
FindBoundary(t, from, stop) ==
    LET visited == (stop + 1)..from
        ends == {i \in visited : ~PyInRange(t, i) \/ PyIndex(t, i) \in Terminators}
        i == SetMax(ends)
    IN  IF ends = {} THEN [kind |-> "none"]
        ELSE IF ~PyInRange(t, i) THEN [kind |-> "IndexError"]
        ELSE [kind |-> "found", at |-> i]

\* the search not limited to the last 200 characters of the window
SearchStopWholeWindow(s, size) == s

\* the lower end (exclusive) of the backward search
SearchStop(s, size) == Max(s + size - SentenceWindow, s)

\* the nominal end not clamped to the length of the text
NominalEndUnclamped(t, s, size) == s + size

\* end = min(start + chunk_size, text_length)
NominalEnd(t, s, size) == Min(s + size, Len(t))

\* the end of the window that starts at s, after the sentence-boundary search
WindowEnd(t, s, size) ==
    LET end == NominalEnd(t, s, size)
        hit == IF end < Len(t)
               THEN FindBoundary(t, end, SearchStop(s, size))
               ELSE [kind |-> "none"]
    IN  [end    |-> IF hit.kind = "found" THEN hit.at + 1 ELSE end,
         raised |-> hit.kind = "IndexError"]

\* the overlap added instead of subtracted
NextStartSignSlip(t, end, ov) == IF end < Len(t) THEN end + ov ELSE end

\* start = end - overlap if end < text_length else end
NextStart(t, end, ov) == IF end < Len(t) THEN end - ov ELSE end

\* TextChunk(id, text, start_char, end_char, dom_selector=None)
TextChunk(id, txt, s, e) ==
    [text |-> txt, id |-> id, start_char |-> s, end_char |-> e]

\* the chunk index advanced for every window, the skipped ones included
LoopBodyIndexPerWindow(t, u, size, ov, st) ==
    LET w == WindowEnd(t, st.start, size)
        chunk_text == Strip(PySlice(t, st.start, w.end))
        emit == chunk_text # <<>>
    IN  IF w.raised
        THEN [st EXCEPT !.pc = "raised"]
        ELSE [start       |-> NextStart(t, w.end, ov),
              chunk_index |-> st.chunk_index + 1,
              chunks      |-> IF emit
                              THEN Append(st.chunks,
                                     TextChunk(ChunkId(u, st.chunk_index),
                                               chunk_text, st.start, w.end))
                              ELSE st.chunks,
              pc          |-> "loop",
              window      |-> [start |-> st.start, end |-> w.end, emitted |-> emit]]

\* one iteration of the while loop, from the locals in st
LoopBody(t, u, size, ov, st) ==
    LET w == WindowEnd(t, st.start, size)
        chunk_text == Strip(PySlice(t, st.start, w.end))
        emit == chunk_text # <<>>
    IN  IF w.raised
        THEN [st EXCEPT !.pc = "raised"]
        ELSE [start       |-> NextStart(t, w.end, ov),
              chunk_index |-> IF emit THEN st.chunk_index + 1 ELSE st.chunk_index,
              chunks      |-> IF emit
                              THEN Append(st.chunks,
                                     TextChunk(ChunkId(u, st.chunk_index),
                                               chunk_text, st.start, w.end))
                              ELSE st.chunks,
              pc          |-> "loop",
              window      |-> [start |-> st.start, end |-> w.end, emitted |-> emit]]

Locals == [start |-> start, chunk_index |-> chunk_index, chunks |-> chunks, pc |-> cpc]

\* while start < text_length: one pass through the body
CreateChunksLoop ==
    /\ cpc = "loop"
    /\ start < Len(text)
    /\ Len(windows) < MaxWindows
    /\ LET st == LoopBody(text, url, chunk_size, overlap, Locals)
       IN  /\ cpc' = st.pc
           /\ start' = st.start
           /\ chunk_index' = st.chunk_index
           /\ chunks' = st.chunks
           /\ windows' = IF st.pc = "raised" THEN windows ELSE Append(windows, st.window)
    /\ UNCHANGED <<text, url, chunk_size, overlap>>
    /\ UNCHANGED <<assemblerVars, redactVars, extractVars, apiVars, vectorVars, rateVars>>

\* the loop condition fails: return chunks
CreateChunksReturn ==
    /\ cpc = "loop"
    /\ ~(start < Len(text))
    /\ cpc' = "done"
    /\ UNCHANGED <<text, url, chunk_size, overlap, start, chunk_index, chunks, windows>>
    /\ UNCHANGED <<assemblerVars, redactVars, extractVars, apiVars, vectorVars, rateVars>>

----------------------------------------------------------------------------
(* Inputs of the chunker *)

Urls == {"https://a.example/p"}

SmallAlphabet == {"a", ".", " "}

RECURSIVE SeqsUpTo(_, _)
SeqsUpTo(S, n) ==
    IF n = 0 THEN {<<>>}
    ELSE LET shorter == SeqsUpTo(S, n - 1)
         IN  shorter \cup {s \o <<c>> : s \in {x \in shorter : Len(x) = n - 1}, c \in S}

SmallTexts == SeqsUpTo(SmallAlphabet, MaxLen)

\* every configuration, the ones with chunk_size <= overlap included
InitChunk ==
    /\ text \in SmallTexts
    /\ url \in Urls
    /\ chunk_size \in 0..MaxSize
    /\ overlap \in 0..MaxSize
    /\ start = 0
    /\ chunk_index = 0
    /\ chunks = <<>>
    /\ windows = <<>>
    /\ cpc = "loop"
    /\ AssemblerIdle
    /\ RedactorIdle
    /\ ExtractorIdle
    /\ ApiIdle
    /\ VectorIdle
    /\ RatesFresh

NextChunk == CreateChunksLoop \/ CreateChunksReturn

SpecChunk == InitChunk /\ [][NextChunk]_vars

----------------------------------------------------------------------------
(* Texts for the default configuration (chunk_size 1000, overlap 200): up to
   MaxRuns runs of one character each, of lengths that put sentence
   terminators and whitespace on and around the window boundaries *)

WordRunLens == {1, 200, 500, 800, 801, 1000}
SpaceRunLens == {1, 1000, 2000}

RunChoices ==
    {Repeat("a", n) : n \in WordRunLens}
        \cup {Repeat(" ", n) : n \in SpaceRunLens}
        \cup {<<".">>}

RECURSIVE RunTexts(_)
RunTexts(n) ==
    IF n = 0 THEN {<<>>}
    ELSE LET shorter == RunTexts(n - 1)
         IN  shorter \cup {s \o r : s \in shorter, r \in RunChoices}

InitDefault ==
    /\ text \in RunTexts(MaxRuns)
    /\ url \in Urls
    /\ chunk_size = DefaultChunkSize
    /\ overlap = DefaultOverlap
    /\ start = 0
    /\ chunk_index = 0
    /\ chunks = <<>>
    /\ windows = <<>>
    /\ cpc = "loop"
    /\ AssemblerIdle
    /\ RedactorIdle
    /\ ExtractorIdle
    /\ ApiIdle
    /\ VectorIdle
    /\ RatesFresh

SpecDefault == InitDefault /\ [][NextChunk]_vars

----------------------------------------------------------------------------
(* Regular expressions of ContentExtractor (Python re, str patterns) *)

Digits == {"0", "1", "2", "3", "4", "5", "6", "7", "8", "9"}
LowerSeq == <<"a", "b", "c", "d", "e", "f", "g", "h", "i", "j", "k", "l", "m", "n", "o", "p", "q", "r", "s", "t", "u", "v", "w", "x", "y", "z">>
UpperSeq == <<"A", "B", "C", "D", "E", "F", "G", "H", "I", "J", "K", "L", "M", "N", "O", "P", "Q", "R", "S", "T", "U", "V", "W", "X", "Y", "Z">>
Lower == {LowerSeq[k] : k \in 1..Len(LowerSeq)}
Upper == {UpperSeq[k] : k \in 1..Len(UpperSeq)}

\* \w
WordChars == Digits \cup Lower \cup Upper \cup {"_"}
\* [-\s]
CardSeparators == {"-"} \cup Whitespace
\* [A-Za-z0-9._%+-]
EmailLocalChars == Lower \cup Upper \cup Digits \cup {".", "_", "%", "+", "-"}
\* [A-Za-z0-9.-]
EmailDomainChars == Lower \cup Upper \cup Digits \cup {".", "-"}
\* [A-Z|a-z]
EmailTldChars == Upper \cup {"|"} \cup Lower

\* c.upper()
UpperChar(c) ==
    IF c \in Lower THEN UpperSeq[CHOOSE k \in 1..Len(LowerSeq) : LowerSeq[k] = c] ELSE c

\* c.lower()
LowerChar(c) ==
    IF c \in Upper THEN LowerSeq[CHOOSE k \in 1..Len(UpperSeq) : UpperSeq[k] = c] ELSE c

\* s.upper(), s.lower()
UpperStr(s) == [k \in 1..Len(s) |-> UpperChar(s[k])]
LowerStr(s) == [k \in 1..Len(s) |-> LowerChar(s[k])]

\* the character at offset p is in class C (no character beyond the ends)
InClass(t, p, C) == 0 <= p /\ p < Len(t) /\ t[p + 1] \in C

\* \b at offset p: exactly one of the characters before and after p is a \w
WordBoundary(t, p) == InClass(t, p - 1, WordChars) # InClass(t, p, WordChars)

\* the length of the longest run of characters of class C that starts at offset p
RunLength(t, p, C) == SetMin({n \in 0..(Len(t) - p) : ~InClass(t, p + n, C)})

\* \d{n} at offset p
DigitsAt(t, p, n) == \A k \in 0..(n - 1) : InClass(t, p + k, Digits)

\* [-\s]? at offset p: the offset after it.  Greedy; giving the separator back
\* cannot help, a digit has to follow
AfterSeparator(t, p) == IF InClass(t, p, CardSeparators) THEN p + 1 ELSE p

NoMatch == 0 - 1

\* \b\d{4}[-\s]?\d{4}[-\s]?\d{4}[-\s]?\d{4}\b  matched at offset p: the end of the
\* match, or NoMatch
MatchCreditCard(t, p) ==
    LET g2 == AfterSeparator(t, p + 4)
        g3 == AfterSeparator(t, g2 + 4)
        g4 == AfterSeparator(t, g3 + 4)
    IN  IF /\ WordBoundary(t, p)
           /\ DigitsAt(t, p, 4) /\ DigitsAt(t, g2, 4)
           /\ DigitsAt(t, g3, 4) /\ DigitsAt(t, g4, 4)
           /\ WordBoundary(t, g4 + 4)
        THEN g4 + 4 ELSE NoMatch

\* \b\d{3}-\d{2}-\d{4}\b  matched at offset p
MatchSsn(t, p) ==
    IF /\ WordBoundary(t, p)
       /\ DigitsAt(t, p, 3) /\ InClass(t, p + 3, {"-"})
       /\ DigitsAt(t, p + 4, 2) /\ InClass(t, p + 6, {"-"})
       /\ DigitsAt(t, p + 7, 4)
       /\ WordBoundary(t, p + 11)
    THEN p + 11 ELSE NoMatch

\* \b[A-Za-z0-9._%+-]+@[A-Za-z0-9.-]+\.[A-Z|a-z]{2,}\b  matched at offset p.
\* The local part is the whole run up to the "@".  The matcher then tries the
\* longest domain first and, for each domain, the longest top-level part first:
\* the match is the one with the longest domain, then the longest top-level part.
MatchEmail(t, p) ==
    LET local == RunLength(t, p, EmailLocalChars)
        dom == p + local + 1
        tries == {<<k, j>> \in (1..RunLength(t, dom, EmailDomainChars)) \X (2..Len(t)) :
                     /\ InClass(t, dom + k, {"."})
                     /\ j <= RunLength(t, dom + k + 1, EmailTldChars)
                     /\ WordBoundary(t, dom + k + 1 + j)}
        k == SetMax({x[1] : x \in tries})
        j == SetMax({x[2] : x \in {y \in tries : y[1] = k}})
    IN  IF /\ WordBoundary(t, p)
           /\ local >= 1
           /\ InClass(t, p + local, {"@"})
           /\ tries # {}
        THEN dom + k + 1 + j ELSE NoMatch

\* \n\s*\n  matched at offset p: up to the last newline of the whitespace run
MatchBlankLines(t, p) ==
    LET run == RunLength(t, p + 1, Whitespace)
        ends == {n \in 1..run : InClass(t, p + n, {"\n"})}
    IN  IF InClass(t, p, {"\n"}) /\ ends # {} THEN p + SetMax(ends) + 1 ELSE NoMatch

\* " +"  matched at offset p
MatchSpaces(t, p) ==
    IF InClass(t, p, {" "}) THEN p + RunLength(t, p, {" "}) ELSE NoMatch

Match(name, t, p) ==
    CASE name = "credit_card" -> MatchCreditCard(t, p)
      [] name = "ssn" -> MatchSsn(t, p)
      [] name = "email" -> MatchEmail(t, p)
      [] name = "blank_lines" -> MatchBlankLines(t, p)
      [] name = "spaces" -> MatchSpaces(t, p)

\* the offsets from p on at which the pattern matches
MatchStarts(name, t, p) == {q \in p..(Len(t) - 1) : Match(name, t, q) # NoMatch}

\* pattern.sub(repl, t), the part of the result from offset p on: the leftmost
\* match is replaced and the scan goes on behind it (no pattern matches the
\* empty string); \b looks at the characters of t itself
RECURSIVE ReSub(_, _, _, _)
ReSub(name, repl, t, p) ==
    LET starts == MatchStarts(name, t, p)
        q == SetMin(starts)
    IN  IF starts = {} THEN SubSeq(t, p + 1, Len(t))
        ELSE SubSeq(t, p + 1, q) \o repl \o ReSub(name, repl, t, Match(name, t, q))

----------------------------------------------------------------------------
(* ContentExtractor._clean_text, ContentExtractor._redact_sensitive *)

\* re.sub(r'\n\s*\n', '\n\n', text); re.sub(r' +', ' ', text); text.strip()
CleanText(t) ==
    Strip(ReSub("spaces", <<" ">>, ReSub("blank_lines", <<"\n", "\n">>, t, 0), 0))

\* self.sensitive_patterns, in the order of the dict
SensitivePatterns == <<"credit_card", "ssn", "email">>

PatternNameChars(name) ==
    CASE name = "credit_card" -> <<"c", "r", "e", "d", "i", "t", "_", "c", "a", "r", "d">>
      [] name = "ssn" -> <<"s", "s", "n">>
      [] name = "email" -> <<"e", "m", "a", "i", "l">>

\* the placeholder without its brackets
PlaceholderBare(name) ==
    <<"R", "E", "D", "A", "C", "T", "E", "D", "_">> \o UpperStr(PatternNameChars(name))

\* f'[REDACTED_{pattern_name.upper()}]'
Placeholder(name) ==
    <<"[", "R", "E", "D", "A", "C", "T", "E", "D", "_">> \o UpperStr(PatternNameChars(name)) \o <<"]">>

\* the body of the for loop: text = pattern.sub(placeholder, text)
RedactWith(name, t) == ReSub(name, Placeholder(name), t, 0)

\* _redact_sensitive(text), from the n-th pattern on
RECURSIVE RedactFrom(_, _)
RedactFrom(t, n) ==
    IF n > Len(SensitivePatterns) THEN t
    ELSE RedactFrom(RedactWith(SensitivePatterns[n], t), n + 1)

RedactSensitive(t) == RedactFrom(t, 1)

\* one pass of the for loop of _redact_sensitive
RedactStep ==
    /\ rapplied < Len(SensitivePatterns)
    /\ rtext' = RedactWith(SensitivePatterns[rapplied + 1], rtext)
    /\ rapplied' = rapplied + 1
    /\ UNCHANGED rinput
    /\ UNCHANGED <<chunkVars, assemblerVars, extractVars, apiVars, vectorVars, rateVars>>

(* Inputs of the redactor: texts of up to MaxTokens tokens *)

Tokens ==
    { <<"4", "1", "1", "1", "1", "1", "1", "1", "1", "1", "1", "1", "1", "1", "1", "1">>,
      <<"4", "1", "1", "1", "-", "1", "1", "1", "1", " ", "1", "1", "1", "1", "1", "1", "1", "1">>,
      <<"1", "2", "3", "-", "4", "5", "-", "6", "7", "8", "9">>,
      <<"a", "@", "b", ".", "c", "o">>,
      <<"@", "b", ".", "c", "o">>,
      <<"7">>, <<"a">>, <<" ">>, <<"-">>, <<".">>, <<"|">>, <<"_">> }

RECURSIVE TokenTexts(_)
TokenTexts(n) ==
    IF n = 0 THEN {<<>>}
    ELSE LET shorter == TokenTexts(n - 1)
         IN  shorter \cup {s \o w : s \in shorter, w \in Tokens}

InitRedact ==
    /\ rinput \in TokenTexts(MaxTokens)
    /\ rtext = rinput
    /\ rapplied = 0
    /\ ChunkerIdle
    /\ AssemblerIdle
    /\ ExtractorIdle
    /\ ApiIdle
    /\ VectorIdle
    /\ RatesFresh

NextRedact == RedactStep

SpecRedact == InitRedact /\ [][NextRedact]_vars

----------------------------------------------------------------------------
(* The redactor: claims *)

RedactReturned == rapplied = Len(SensitivePatterns)

\* C3: when the text given to _redact_sensitive contains a substring that the
\* credit-card, SSN or email pattern matches, the text returned contains no
\* occurrence of that substring and at least one placeholder of that pattern's
\* category.
C3_RedactionIrreversible ==
    RedactReturned =>
        \A n \in 1..Len(SensitivePatterns) :
            LET name == SensitivePatterns[n]
            IN  \A q \in MatchStarts(name, rinput, 0) :
                    /\ ~Occurs(SubSeq(rinput, q + 1, Match(name, rinput, q)), rtext)
                    /\ Occurs(Placeholder(name), rtext)

----------------------------------------------------------------------------
(* The chunker: claims *)

ValidConfig == 0 <= overlap /\ overlap < chunk_size

\* C4: with 0 <= overlap < size, every window that ends before the end of the
\* text is followed by a start (end - overlap) strictly greater than its own
C4_ForwardProgress ==
    ValidConfig =>
        \A k \in 1..Len(windows) :
            windows[k].end < Len(text) => windows[k].end - overlap > windows[k].start

\* C5: a call with size <= overlap is rejected before the first loop iteration:
\* it computes no window and emits no chunk
C5_RejectsBadConfig ==
    chunk_size <= overlap => (windows = <<>> /\ chunks = <<>>)

\* C6: with 0 <= overlap < size, every emitted chunk has
\* 0 <= start_char < end_char <= len(text)
C6_ChunkOffsets ==
    ValidConfig =>
        \A k \in 1..Len(chunks) :
            /\ 0 <= chunks[k].start_char
            /\ chunks[k].start_char < chunks[k].end_char
            /\ chunks[k].end_char <= Len(text)

\* a finished run that emitted two chunks, one of them cut at a sentence
\* terminator before the nominal end
C6_Witness ==
    /\ ValidConfig
    /\ cpc = "done"
    /\ Len(chunks) >= 2
    /\ \E k \in 1..Len(chunks) :
          chunks[k].end_char < NominalEnd(text, chunks[k].start_char, chunk_size)

DefaultConfig == chunk_size = DefaultChunkSize /\ overlap = DefaultOverlap

\* C7: with the defaults, emitted chunks are in strictly increasing start order
\* and chunk k ends at most `overlap` characters after chunk k+1 starts
C7_MonotonicSpans ==
    DefaultConfig =>
        \A k \in 1..(Len(chunks) - 1) :
            /\ chunks[k].start_char < chunks[k + 1].start_char
            /\ chunks[k].end_char <= chunks[k + 1].start_char + overlap

\* a finished run of three chunks, with a skipped window between two of them
\* (the later chunk starts beyond end - overlap of the earlier one)
C7_Witness ==
    /\ DefaultConfig
    /\ cpc = "done"
    /\ Len(chunks) >= 3
    /\ \E k \in 1..(Len(chunks) - 1) :
          chunks[k].end_char < chunks[k + 1].start_char + overlap

NoWindowSkipped == \A k \in 1..Len(windows) : windows[k].emitted

\* C8: with the defaults, when the chunker has returned for a non-empty text
\* and skipped no window, the first chunk starts at 0, the last ends at
\* len(text), consecutive spans leave no gap, and so every offset of the text
\* lies in the span of some chunk
C8_Coverage ==
    (DefaultConfig /\ cpc = "done" /\ Len(text) > 0 /\ NoWindowSkipped) =>
        /\ Len(chunks) >= 1
        /\ chunks[1].start_char = 0
        /\ chunks[Len(chunks)].end_char = Len(text)
        /\ \A k \in 1..(Len(chunks) - 1) : chunks[k + 1].start_char <= chunks[k].end_char
        /\ \A off \in 0..(Len(text) - 1) :
              \E k \in 1..Len(chunks) :
                  chunks[k].start_char <= off /\ off < chunks[k].end_char

\* a finished run over a text longer than two windows, no window skipped, one
\* chunk cut at a sentence terminator
C8_Witness ==
    /\ DefaultConfig
    /\ cpc = "done"
    /\ NoWindowSkipped
    /\ Len(chunks) >= 3
    /\ \E k \in 1..Len(chunks) :
          chunks[k].end_char # NominalEnd(text, chunks[k].start_char, chunk_size)

----------------------------------------------------------------------------
(* LLMService._prepare_context *)

\* "\n\n".join(parts)
RECURSIVE JoinBlank(_)
JoinBlank(parts) ==
    IF parts = <<>> THEN <<>>
    ELSE IF Len(parts) = 1 THEN parts[1]
    ELSE parts[1] \o <<"\n", "\n">> \o JoinBlank(Tail(parts))

\* an oversized chunk skipped (continue) instead of ending the loop (break)
RECURSIVE PrepareLoopContinue(_, _, _, _, _)
PrepareLoopContinue(cs, k, total, parts, budget) ==
    IF k > Len(cs) THEN [parts |-> parts, total |-> total]
    ELSE IF total + Len(cs[k].text) > budget
         THEN PrepareLoopContinue(cs, k + 1, total, parts, budget)
         ELSE PrepareLoopContinue(cs, k + 1, total + Len(cs[k].text),
                                  Append(parts, cs[k].text), budget)

\* for chunk in chunks: if total_chars + len(chunk.text) > max_chars: break;
\*                      context_parts.append(chunk.text); total_chars += len(chunk.text)
\* from chunk k on, with the locals total and parts
RECURSIVE PrepareLoop(_, _, _, _, _)
PrepareLoop(cs, k, total, parts, budget) ==
    IF k > Len(cs) THEN [parts |-> parts, total |-> total]
    ELSE IF total + Len(cs[k].text) > budget
         THEN [parts |-> parts, total |-> total]
         ELSE PrepareLoop(cs, k + 1, total + Len(cs[k].text),
                          Append(parts, cs[k].text), budget)

\* _prepare_context(chunks, max_chars)
PrepareContext(cs, budget) == JoinBlank(PrepareLoop(cs, 1, 0, <<>>, budget).parts)

\* the call, from the arguments to the returned string
PrepareContextCall ==
    /\ apc = "call"
    /\ LET r == PrepareLoop(achunks, 1, 0, <<>>, max_chars)
       IN  /\ context_parts' = r.parts
           /\ total_chars' = r.total
    /\ context' = PrepareContext(achunks, max_chars)
    /\ apc' = "done"
    /\ UNCHANGED <<achunks, max_chars>>
    /\ UNCHANGED <<chunkVars, redactVars, extractVars, apiVars, vectorVars, rateVars>>

(* Inputs of the context assembler: chunk lists as a request or the chunker
   hands them over; a request's chunk text may be empty *)

PartTexts == {Repeat(c, n) : c \in {"a", "b"}, n \in 0..MaxPartLen}

RECURSIVE ChunkLists(_)
ChunkLists(n) ==
    IF n = 0 THEN {<<>>}
    ELSE LET shorter == ChunkLists(n - 1)
         IN  shorter \cup
             {Append(cs, TextChunk(<<"id", Len(cs)>>, t, 0, Len(t))) :
                 cs \in {x \in shorter : Len(x) = n - 1}, t \in PartTexts}

InitContext ==
    /\ achunks \in ChunkLists(MaxChunks)
    /\ max_chars \in 1..MaxBudget
    /\ context_parts = <<>>
    /\ total_chars = 0
    /\ context = <<>>
    /\ apc = "call"
    /\ ChunkerIdle
    /\ RedactorIdle
    /\ ExtractorIdle
    /\ ApiIdle
    /\ VectorIdle
    /\ RatesFresh

NextContext == PrepareContextCall

SpecContext == InitContext /\ [][NextContext]_vars

----------------------------------------------------------------------------
(* The context assembler: claims *)

\* len(chunks[0].text) + ... + len(chunks[k-1].text)
RECURSIVE SumLens(_, _)
SumLens(cs, k) == IF k = 0 THEN 0 ELSE SumLens(cs, k - 1) + Len(cs[k].text)

\* the length of the longest prefix of cs whose texts sum to at most budget
LongestPrefix(cs, budget) ==
    SetMax({k \in 0..Len(cs) : SumLens(cs, k) <= budget})

\* where the text of chunk k starts in a string that joins the first chunks'
\* texts with two-character separators (0-based)
OffsetOf(cs, k) == SumLens(cs, k - 1) + 2 * (k - 1)

\* C9: the returned context is the texts of the longest prefix of the chunk list
\* whose text lengths sum to at most max_chars: each text whole, in input order,
\* a blank line between neighbours, and nothing else
C9_LongestPrefixWhole ==
    apc = "done" =>
        LET n == LongestPrefix(achunks, max_chars)
        IN  /\ Len(context_parts) = n
            /\ \A k \in 1..n : context_parts[k] = achunks[k].text
            /\ Len(context) = IF n = 0 THEN 0 ELSE SumLens(achunks, n) + 2 * (n - 1)
            /\ \A k \in 1..n :
                  SubSeq(context, OffsetOf(achunks, k) + 1,
                         OffsetOf(achunks, k) + Len(achunks[k].text)) = achunks[k].text
            /\ \A k \in 1..(n - 1) :
                  LET sep == OffsetOf(achunks, k) + Len(achunks[k].text)
                  IN  context[sep + 1] = "\n" /\ context[sep + 2] = "\n"

\* a call that kept two chunks and left out a later chunk that would still fit
\* after the first one that did not
C9_Witness ==
    /\ apc = "done"
    /\ Len(context_parts) = 2
    /\ Len(achunks) >= 3
    /\ Len(achunks[3].text) > 0
    /\ \E k \in 4..Len(achunks) : total_chars + Len(achunks[k].text) <= max_chars

\* C10: for a non-empty chunk list the first chunk is always included, so the
\* context is non-empty whenever the first chunk's text is
C10_FirstChunkAlwaysIncluded ==
    (apc = "done" /\ achunks # <<>>) =>
        /\ Len(context_parts) >= 1
        /\ context_parts[1] = achunks[1].text
        /\ (achunks[1].text # <<>> => context # <<>>)

----------------------------------------------------------------------------
(* HTML documents, as the parsers (readability, BeautifulSoup, html2text) see
   them: a title and the elements of the body in document order.  An element
   has a tag, its text and its attributes, a set of <<name, value>> pairs. *)

Element(tag, txt, attrs) == [text |-> txt, tag |-> tag, attrs |-> attrs]

Html(title, body) == [title |-> title, body |-> body]

\* the empty string: no document in it
EmptyHtml == Html(<<>>, <<>>)

\* name in tag.attrs
HasAttr(e, name) == \E a \in e.attrs : a[1] = name

\* tag.get(name, default)
GetAttr(e, name, default) ==
    IF HasAttr(e, name) THEN (CHOOSE a \in e.attrs : a[1] = name)[2] ELSE default

\* Document(html): readability and lxml raise on a string that holds no document
DocumentRaises(html) == html = EmptyHtml

\* Document(html).title()
DocTitle(html) == html.title

\* Document(html).summary(): the elements readability keeps (here: all of them)
DocSummary(html) == html.body

DecomposedTags == {"script", "style", "nav", "footer", "header"}

\* for tag in soup(['script', 'style', 'nav', 'footer', 'header']): tag.decompose()
Decompose(elements) ==
    LET kept(e) == e.tag \notin DecomposedTags
    IN  SelectSeq(elements, kept)

HeadingTags == {"h1", "h2", "h3"}

HeadingMark(tag) ==
    CASE tag = "h1" -> <<"#", " ">>
      [] tag = "h2" -> <<"#", "#", " ">>
      [] tag = "h3" -> <<"#", "#", "#", " ">>

\* html2text on one element (ignore_links = False, body_width = 0): a heading
\* gets its marks, a link is written [text](href), a block ends with a blank line
RenderElement(e) ==
    CASE e.tag \in HeadingTags -> HeadingMark(e.tag) \o Strip(e.text) \o <<"\n", "\n">>
      [] e.tag = "a" /\ HasAttr(e, "href") ->
            <<"[">> \o e.text \o <<"]", "(">> \o GetAttr(e, "href", <<>>) \o <<")">>
            \o <<"\n", "\n">>
      [] e.tag = "input" -> <<>>
      [] OTHER -> e.text \o <<"\n", "\n">>

\* self.html2text.handle(str(soup))
RECURSIVE Html2Text(_)
Html2Text(elements) ==
    IF elements = <<>> THEN <<>>
    ELSE RenderElement(Head(elements)) \o Html2Text(Tail(elements))

\* soup.get_text()
RECURSIVE GetText(_)
GetText(elements) ==
    IF elements = <<>> THEN <<>> ELSE Head(elements).text \o GetText(Tail(elements))

\* len(text.split())
WordCount(t) ==
    Cardinality({i \in 1..Len(t) :
        t[i] \notin Whitespace /\ (i = 1 \/ t[i - 1] \in Whitespace)})

MetaLinkLimit == 20

\* _extract_metadata(soup, url)
ExtractMetadata(soup, u) ==
    LET isHeading(e) == e.tag \in HeadingTags
        isLink(e) == e.tag = "a" /\ HasAttr(e, "href")
        headings == SelectSeq(soup, isHeading)
        links == PySlice(SelectSeq(soup, isLink), 0, MetaLinkLimit)
    IN  [url        |-> u,
         headings   |-> [k \in 1..Len(headings) |->
                            [text |-> Strip(headings[k].text), level |-> headings[k].tag]],
         links      |-> [k \in 1..Len(links) |->
                            [text |-> Strip(links[k].text),
                             href |-> GetAttr(links[k], "href", <<>>)]],
         word_count |-> WordCount(GetText(soup))]

\* _create_chunks(text, url) with the default chunk_size and overlap, run to its
\* return
RECURSIVE CreateChunksFrom(_, _, _, _, _)
CreateChunksFrom(t, u, size, ov, st) ==
    IF st.pc = "raised" \/ ~(st.start < Len(t)) THEN st
    ELSE CreateChunksFrom(t, u, size, ov, LoopBody(t, u, size, ov, st))

CreateChunks(t, u) ==
    CreateChunksFrom(t, u, DefaultChunkSize, DefaultOverlap,
        [start |-> 0, chunk_index |-> 0, chunks |-> <<>>, pc |-> "loop"])

\* extract_from_html(html, url): the returned dict, or the exception
ExtractFromHtml(html, u) ==
    IF DocumentRaises(html) THEN [kind |-> "raised"]
    ELSE LET title == DocTitle(html)
             soup == Decompose(DocSummary(html))
             redacted == RedactSensitive(CleanText(Html2Text(soup)))
             made == CreateChunks(redacted, u)
         IN  IF made.pc = "raised" THEN [kind |-> "raised"]
             ELSE [text   |-> redacted,
                   chunks |-> made.chunks,
                   kind   |-> "returned",
                   title  |-> title,
                   meta   |-> ExtractMetadata(soup, u)]

\* a call of extract_from_html
ExtractFromHtmlCall ==
    /\ ehtml # <<>>
    /\ eresult.kind = "none"
    /\ eresult' = ExtractFromHtml(ehtml[1], eurl)
    /\ UNCHANGED <<ehtml, eurl>>
    /\ UNCHANGED <<chunkVars, assemblerVars, redactVars, apiVars, vectorVars, rateVars>>

(* Inputs of the extractor: pages of up to MaxElements elements *)

PageTitles == {<<"T">>, <<"a", "@", "b", ".", "c", "o">>}

PageElements ==
    { Element("p", <<"H", "i", ".">>, {}),
      Element("p", <<"a", "@", "b", ".", "c", "o">>, {}),
      Element("p", <<"1", "2", "3", "-", "4", "5", "-", "6", "7", "8", "9">>, {}),
      Element("h1", <<" ", "T", "o", "p", " ">>, {}),
      Element("h2", <<"a", "@", "b", ".", "c", "o">>, {}),
      Element("a", <<"m", "e">>, {<<"href", <<"m", "a", "i", "l", "t", "o", ":", "a", "@", "b", ".", "c", "o">>>>}),
      Element("a", <<"x">>, {}),
      Element("script", <<"x", "=", "1">>, {}) }

Pages(n) == {Html(t, b) : t \in PageTitles, b \in SeqsUpTo(PageElements, n)}

InitExtract ==
    /\ ehtml \in {<<h>> : h \in Pages(MaxElements) \cup {EmptyHtml}}
    /\ eurl \in Urls
    /\ eresult = [kind |-> "none"]
    /\ ChunkerIdle
    /\ AssemblerIdle
    /\ RedactorIdle
    /\ ApiIdle
    /\ VectorIdle
    /\ RatesFresh

NextExtract == ExtractFromHtmlCall

SpecExtract == InitExtract /\ [][NextExtract]_vars

----------------------------------------------------------------------------
(* The extractor: claims *)

\* some substring of t is matched by a sensitive pattern
HoldsSensitive(t) ==
    \E n \in 1..Len(SensitivePatterns) : MatchStarts(SensitivePatterns[n], t, 0) # {}

\* the strings of the dict returned by extract_from_html
ResultStrings(r) ==
    {r.text, r.title}
    \cup {r.chunks[k].text : k \in 1..Len(r.chunks)}
    \cup {r.meta.headings[k].text : k \in 1..Len(r.meta.headings)}
    \cup {r.meta.links[k].text : k \in 1..Len(r.meta.links)}
    \cup {r.meta.links[k].href : k \in 1..Len(r.meta.links)}

\* C2: no field of the result of an extraction (normalized text, chunk texts,
\* title, metadata headings, metadata link texts and hrefs) holds a substring
\* that the credit-card, SSN or email pattern matches.
C2_ResultRedacted ==
    eresult.kind = "returned" =>
        \A f \in ResultStrings(eresult) : ~HoldsSensitive(f)

----------------------------------------------------------------------------
(* ContentExtractor.detect_sensitive_inputs *)

CardKeywords == {<<"c", "a", "r", "d">>, <<"c", "v", "v">>, <<"c", "c", "v">>, <<"c", "r", "e", "d", "i", "t">>}

\* the name and the id of an input compared as they are written, not lower-cased
DetectSensitiveInputsCaseSensitive(html) ==
    LET inputs == {html.body[k] : k \in {i \in 1..Len(html.body) : html.body[i].tag = "input"}}
        password == \E e \in inputs :
                        HasAttr(e, "type") /\ GetAttr(e, "type", <<>>) = <<"p", "a", "s", "s", "w", "o", "r", "d">>
        named(e) == GetAttr(e, "name", <<>>) \o <<" ">> \o GetAttr(e, "id", <<>>)
        card == \E e \in inputs : \E keyword \in CardKeywords : Occurs(keyword, named(e))
    IN  (IF password THEN {"password"} ELSE {})
        \cup (IF card THEN {"credit_card"} ELSE {})

\* detect_sensitive_inputs(html): list(set(sensitive_fields)), as a set
DetectSensitiveInputs(html) ==
    LET inputs == {html.body[k] : k \in {i \in 1..Len(html.body) : html.body[i].tag = "input"}}
        password == \E e \in inputs :
                        HasAttr(e, "type") /\ GetAttr(e, "type", <<>>) = <<"p", "a", "s", "s", "w", "o", "r", "d">>
        named(e) == LowerStr(GetAttr(e, "name", <<>>) \o <<" ">> \o GetAttr(e, "id", <<>>))
        card == \E e \in inputs : \E keyword \in CardKeywords : Occurs(keyword, named(e))
    IN  (IF password THEN {"password"} ELSE {})
        \cup (IF card THEN {"credit_card"} ELSE {})

----------------------------------------------------------------------------
(* The pages the backend can fetch, and the documents a client can send *)

Article == Html(<<"T">>, <<Element("p", <<"H", "i", ".">>, {})>>)

Contact ==
    Html(<<"a", "@", "b", ".", "c", "o">>,
         <<Element("h1", <<" ", "T", "o", "p", " ">>, {}), Element("p", <<"a", "@", "b", ".", "c", "o">>, {})>>)

LoginPage ==
    Html(<<"T">>,
         <<Element("input", <<>>, {<<"type", <<"p", "a", "s", "s", "w", "o", "r", "d">>>>, <<"name", <<"p", "w">>>>}),
           Element("p", <<"H", "i", ".">>, {})>>)

CheckoutPage ==
    Html(<<"T">>,
         <<Element("p", <<"H", "i", ".">>, {}),
           Element("input", <<>>, {<<"type", <<"t", "e", "x", "t">>>>, <<"id", <<"C", "a", "r", "d", "N", "u", "m", "b", "e", "r">>>>})>>)

\* a page whose text fills more than two chunks and more than one page's share
\* of a comparison
LongPage == Html(<<"T">>, <<Element("p", Repeat("a", 2500), {})>>)

\* the documents a client sends along with a url
ClientDocs == {Article, Contact, LoginPage, CheckoutPage, EmptyHtml}

\* response.text of a GET, <<>> when the request fails or the status is an error
TheWeb ==
    [u \in {"https://a.example/p", "https://b.example/q", "https://login.example/",
            "https://long.example/", "https://empty.example/", "https://down.example/"} |->
        CASE u = "https://a.example/p" -> <<Article>>
          [] u = "https://b.example/q" -> <<Contact>>
          [] u = "https://login.example/" -> <<LoginPage>>
          [] u = "https://long.example/" -> <<LongPage>>
          [] u = "https://empty.example/" -> <<EmptyHtml>>
          [] u = "https://down.example/" -> <<>>]

PageUrls == DOMAIN TheWeb

\* not html
Falsy(given) == given = <<>> \/ given[1] = EmptyHtml

FetchCall(u) == [url |-> u, op |-> "fetch", ok |-> TheWeb[u] # <<>>]
DetectCall(h, kinds) == [op |-> "detect_sensitive_inputs", html |-> h, result |-> kinds]
ExtractCall(h, u, result) ==
    [url |-> u, op |-> "extract_from_html", raised |-> result.kind = "raised", html |-> h]

----------------------------------------------------------------------------
(* api/v1/extract.py: extract_content *)

NoRequest == [pc |-> "idle"]
NoAsk == [op |-> "none"]
Asked(op, user_id, chat_id) == [op |-> op, user_id |-> user_id, chat_id |-> chat_id]
NoResponse == [status |-> 0]

\* the handler up to its response; a value is bound where the code assigns it
ExtractContent ==
    \E u \in PageUrls, given \in {<<>>} \cup {<<h>> : h \in ClientDocs} :
    \E got \in {IF Falsy(given) THEN TheWeb[u] ELSE given} :
    \E fetched \in {IF Falsy(given) THEN <<FetchCall(u)>> ELSE <<>>} :
        /\ req = NoRequest
        /\ served < MaxRequests
        /\ served' = served + 1
        /\ UNCHANGED <<redis, chats, req>>
        /\ UNCHANGED <<chunkVars, assemblerVars, redactVars, extractVars, vectorVars, rateVars>>
        /\ UNCHANGED <<creating, chats_id_seq, asked>>
        /\ IF got = <<>>
           THEN /\ response' = [status |-> 400, detail |-> "Failed to fetch URL"]
                /\ calls' = fetched
           ELSE \E sensitive_fields \in {DetectSensitiveInputs(got[1])} :
                IF sensitive_fields # {}
                THEN /\ response' = [status |-> 400,
                                     kinds  |-> sensitive_fields,
                                     detail |-> "Page contains sensitive fields"]
                     /\ calls' = fetched \o <<DetectCall(got[1], sensitive_fields)>>
                ELSE \E result \in {ExtractFromHtml(got[1], u)} :
                     /\ calls' = fetched \o <<DetectCall(got[1], sensitive_fields),
                                              ExtractCall(got[1], u, result)>>
                     /\ response' =
                            IF result.kind = "raised"
                            THEN [status |-> 500, detail |-> "Content extraction failed"]
                            ELSE [url         |-> u,
                                  status      |-> 200,
                                  title       |-> result.title,
                                  meta        |-> result.meta,
                                  text_chunks |-> result.chunks]

----------------------------------------------------------------------------
(* services/llm_service.py: compare_pages *)

\* _extract_sources(chunks); the score is the constant 0.9, the selector None
ExtractSources(cs) ==
    [k \in 1..Len(cs) |->
        [text     |-> IF Len(cs[k].text) > SourceTextLimit
                      THEN PySlice(cs[k].text, 0, SourceTextLimit) \o <<".", ".", ".">>
                      ELSE cs[k].text,
         chunk_id |-> cs[k].id]]

RECURSIVE Flatten(_)
Flatten(lists) ==
    IF lists = <<>> THEN <<>> ELSE Head(lists) \o Flatten(Tail(lists))

\* the page text not cut to its share
CompareContextsUncapped(page_chunks_list, page_urls) ==
    [i \in 1..Len(page_chunks_list) |->
        [text |-> PrepareContext(page_chunks_list[i], DefaultMaxChars),
         url  |-> page_urls[i],
         page |-> i]]

\* contexts: f"Page {i+1} ({page_urls[i]}):\n{page_text[:2000]}", one per entry of
\* page_chunks_list
CompareContexts(page_chunks_list, page_urls) ==
    [i \in 1..Len(page_chunks_list) |->
        [text |-> PySlice(PrepareContext(page_chunks_list[i], DefaultMaxChars),
                          0, PageTextLimit),
         url  |-> page_urls[i],
         page |-> i]]

\* the dict compare_pages returns when the model answers
ComparePages(page_chunks_list, page_urls) ==
    [answer         |-> "answer",
     sources        |-> Flatten([i \in 1..Len(page_chunks_list) |->
                            ExtractSources(PySlice(page_chunks_list[i], 0, ComparedSources))]),
     pages_analyzed |-> page_urls]

CompareCall(page_chunks_list, page_urls, ok) ==
    [op |-> "compare_pages", raised |-> ~ok,
     page_urls |-> page_urls, contexts |-> CompareContexts(page_chunks_list, page_urls)]

----------------------------------------------------------------------------
(* core/redis_client.py: increment_rate_limit *)

\* f"rate_limit:qa:{user_id}"
QaRateKey(user_id) == <<"rate_limit:qa", user_id>>

\* pipe.incr(key); pipe.expire(key, window_seconds)
IncrementRateLimit(store, key) == [store EXCEPT ![key] = @ + 1]

\* an expiry that is set only when the key has none: a window that does not
\* slide
ExpireWhenNew(ttl, key, window_seconds) ==
    [ttl EXCEPT ![key] = IF @ = 0 THEN window_seconds ELSE @]

\* pipe.expire(key, window_seconds): the key lives window_seconds from now
Expire(ttl, key, window_seconds) == [ttl EXCEPT ![key] = window_seconds]

\* a request on the key came in now
Requested(since, key) == [since EXCEPT ![key] = 0]

----------------------------------------------------------------------------
(* api/v1/qa.py: answer_multipage_question *)

Message(role, content, extra_data) ==
    [role |-> role, content |-> content, extra_data |-> extra_data]

Callers == {1}

\* api/v1/chat.py, create_chat: title=chat_data.title or "New Chat"
DefaultTitle == "New Chat"

\* select(Chat).where(Chat.id == chat_id), without the user: the chat is found
\* whoever owns it
OwnedChatAnyUser(chat_id, user_id) ==
    chat_id # 0 /\ chat_id \in DOMAIN chats

\* select(Chat).where(Chat.id == chat_id, Chat.user_id == user_id), behind
\* "if request.chat_id" where the chat is optional: the chat is found
OwnedChat(chat_id, user_id) ==
    chat_id # 0 /\ chat_id \in DOMAIN chats /\ chats[chat_id].user_id = user_id
Question == "question"

\* lists of urls: every list of up to two, and longer lists of one page
RequestUrlLists ==
    SeqsUpTo(PageUrls, MinCompared)
    \cup {Repeat("https://a.example/p", n) : n \in (MinCompared + 1)..MaxRequestUrls}

\* the handler from its start to the for loop: rate limiting and validation
MultipageRequest ==
    \E user_id \in Callers, urls \in RequestUrlLists, chat_id \in {0} \cup DOMAIN chats :
    \E key \in {QaRateKey(user_id)} :
    \E count \in {IncrementRateLimit(redis, key)[key]} :
        /\ req = NoRequest
        /\ served < MaxRequests
        /\ served' = served + 1
        /\ redis' = IncrementRateLimit(redis, key)
        /\ calls' = <<>>
        /\ UNCHANGED chats
        /\ UNCHANGED <<chunkVars, assemblerVars, redactVars, extractVars, vectorVars>>
        /\ expires' = Expire(expires, key, RateWindow)
        /\ quiet' = Requested(quiet, key)
        /\ UNCHANGED <<creating, chats_id_seq>>
        /\ asked' = Asked("answer_multipage_question", user_id, chat_id)
        /\ IF count > RATE_LIMIT_PER_MINUTE
           THEN /\ response' = [status |-> 429, detail |-> "Rate limit exceeded"]
                /\ UNCHANGED req
           ELSE IF Len(urls) < MinCompared
           THEN /\ response' = [status |-> 400,
                                detail |-> "At least 2 page URLs are required"]
                /\ UNCHANGED req
           ELSE IF Len(urls) > MaxCompared
           THEN /\ response' = [status |-> 400,
                                detail |-> "Maximum 5 pages can be compared"]
                /\ UNCHANGED req
           ELSE /\ response' = NoResponse
                /\ req' = [pc |-> "fetch", user_id |-> user_id, chat_id |-> chat_id,
                           page_chunks_list |-> <<>>, urls |-> urls]

\* f"Failed to fetch/extract content from {url}: {str(e)}", e the exception caught
FailedPage(u, e) ==
    [url |-> u, status |-> 400, detail |-> "Failed to fetch/extract content", error |-> e]

\* one pass of the for loop over request.urls
MultipageFetchExtract ==
    /\ req.pc = "fetch"
    /\ Len(req.page_chunks_list) < Len(req.urls)
    /\ UNCHANGED <<redis, chats, served>>
    /\ UNCHANGED <<chunkVars, assemblerVars, redactVars, extractVars, vectorVars, rateVars>>
    /\ UNCHANGED <<creating, chats_id_seq>>
    /\ asked' = Asked("answer_multipage_question", req.user_id, req.chat_id)
    /\ \E u \in {req.urls[Len(req.page_chunks_list) + 1]} :
        IF TheWeb[u] = <<>>
        THEN /\ calls' = Append(calls, FetchCall(u))
             /\ response' = FailedPage(u, "httpx.HTTPError")
             /\ req' = NoRequest
        ELSE \E result \in {ExtractFromHtml(TheWeb[u][1], u)} :
             /\ calls' = calls \o <<FetchCall(u), ExtractCall(TheWeb[u][1], u, result)>>
             /\ IF result.kind = "raised"
                THEN /\ response' = FailedPage(u, "lxml.etree.ParserError")
                     /\ req' = NoRequest
                ELSE /\ UNCHANGED response
                     /\ req' = [req EXCEPT !.page_chunks_list = Append(@, result.chunks)]

\* the handler after the for loop: the comparison, the response, the chat
MultipageCompare ==
    /\ req.pc = "fetch"
    /\ Len(req.page_chunks_list) = Len(req.urls)
    /\ req' = NoRequest
    /\ UNCHANGED <<redis, served>>
    /\ UNCHANGED <<chunkVars, assemblerVars, redactVars, extractVars, vectorVars, rateVars>>
    /\ UNCHANGED <<creating, chats_id_seq>>
    /\ asked' = Asked("answer_multipage_question", req.user_id, req.chat_id)
    /\ \E llm_ok \in BOOLEAN :
       \E result \in {ComparePages(req.page_chunks_list, req.urls)} :
        /\ calls' = Append(calls, CompareCall(req.page_chunks_list, req.urls, llm_ok))
        /\ IF ~llm_ok
           THEN /\ response' = [status |-> 500, detail |-> "Multi-page comparison failed"]
                /\ UNCHANGED chats
           ELSE /\ response' = [status         |-> 200,
                                answer         |-> result.answer,
                                sources        |-> result.sources,
                                pages_analyzed |-> result.pages_analyzed]
                /\ IF OwnedChat(req.chat_id, req.user_id)
                   THEN chats' = [chats EXCEPT ![req.chat_id].messages =
                            @ \o <<Message("user", Question,
                                       [pages |-> req.urls, type |-> "multi_page"]),
                                   Message("assistant", result.answer,
                                       [sources |-> result.sources,
                                        pages_analyzed |-> result.pages_analyzed,
                                        type |-> "multi_page"])>>]
                   ELSE UNCHANGED chats

InitApi ==
    /\ redis \in [{QaRateKey(u) : u \in Callers} ->
                    {0, RATE_LIMIT_PER_MINUTE - 1, RATE_LIMIT_PER_MINUTE}]
    /\ chats = [c \in {1, 2} |-> [title |-> DefaultTitle, user_id |-> c, messages |-> <<>>]]
    /\ req = NoRequest
    /\ response = NoResponse
    /\ calls = <<>>
    /\ served = 0
    /\ creating = <<>>
    /\ chats_id_seq = 2
    /\ asked = NoAsk
    /\ ChunkerIdle
    /\ AssemblerIdle
    /\ RedactorIdle
    /\ ExtractorIdle
    /\ VectorIdle
    /\ RatesFresh

NextApi ==
    ExtractContent \/ MultipageRequest \/ MultipageFetchExtract \/ MultipageCompare

SpecApi == InitApi /\ [][NextApi]_vars

----------------------------------------------------------------------------
(* The endpoints: claims *)

\* C1: on every request path that extracts page HTML, detect_sensitive_inputs
\* is run on that HTML first and extract_from_html is called only if the
\* detector returned no kinds; when the detector returns a kind, the request is
\* rejected with a response that names the detected kinds and carries no text
\* or chunks.
C1_SensitiveGate ==
    /\ \A i \in 1..Len(calls) :
        calls[i].op = "extract_from_html" =>
            \E j \in 1..(i - 1) :
                /\ calls[j].op = "detect_sensitive_inputs"
                /\ calls[j].html = calls[i].html
                /\ calls[j].result = {}
    /\ \A j \in 1..Len(calls) :
        (calls[j].op = "detect_sensitive_inputs" /\ calls[j].result # {}) =>
            /\ response.status = 400
            /\ response.detail = "Page contains sensitive fields"
            /\ response.kinds = calls[j].result

\* the chunks extract_from_html makes of the page at url u
ChunksOf(u) == ExtractFromHtml(TheWeb[u][1], u).chunks

\* a fetch or an extraction among the calls failed
SomeCallFailed(cs) ==
    \E k \in 1..Len(cs) :
        \/ cs[k].op = "fetch" /\ ~cs[k].ok
        \/ cs[k].op = "extract_from_html" /\ cs[k].raised

\* the handler calls compare_pages in this step
ComparesNow ==
    /\ Len(calls') = Len(calls) + 1
    /\ calls'[Len(calls')].op = "compare_pages"

\* C11: when the multi-page handler calls compare_pages, the contexts hold one
\* block per requested url, in request order: block i has page number i and
\* urls[i], and its text is the first 2000 characters at most of the context
\* assembled from the chunks extracted from urls[i]; no fetch and no extraction
\* of the request has failed.
C11_BlocksAligned ==
    [][ComparesNow =>
            LET blocks == calls'[Len(calls')].contexts
            IN  /\ Len(blocks) = Len(req.urls)
                /\ \A i \in 1..Len(blocks) :
                      /\ blocks[i].page = i
                      /\ blocks[i].url = req.urls[i]
                      /\ Len(blocks[i].text) <= PageTextLimit
                      /\ blocks[i].text =
                            PySlice(PrepareContext(ChunksOf(req.urls[i]), DefaultMaxChars),
                                    0, PageTextLimit)
                /\ ~SomeCallFailed(calls')]_vars

\* a comparison of two different pages, one of them cut to 2000 characters
C11_Witness ==
    \E k \in 1..Len(calls) :
        /\ calls[k].op = "compare_pages"
        /\ Len(calls[k].contexts) = 2
        /\ calls[k].contexts[1].url # calls[k].contexts[2].url
        /\ Len(calls[k].contexts[2].text) = PageTextLimit
        /\ Len(calls[k].contexts[1].text) < PageTextLimit

----------------------------------------------------------------------------
(* services/llm_service.py: summarize, answer_question *)

SummarySources == 3
AnswerSources == 3

\* the dict summarize returns when the model answers
Summarize(cs) ==
    [sources |-> ExtractSources(PySlice(cs, 0, SummarySources)),
     summary |-> "summary"]

\* the dict answer_question returns when the model answers
AnswerQuestionResult(cs) ==
    [answer     |-> "answer",
     sources    |-> ExtractSources(PySlice(cs, 0, AnswerSources)),
     confidence |-> "0.85"]

SummarizeCall(cs, ok) ==
    [op |-> "summarize", raised |-> ~ok,
     content_text |-> PrepareContext(cs, DefaultMaxChars)]

HistoryLimit == 10

\* the messages handed to the model: chat_history[-10:], role and content
ChatHistory(messages) ==
    LET recent == PySlice(messages, Max(Len(messages) - HistoryLimit, 0), Len(messages))
    IN  [k \in 1..Len(recent) |-> [role |-> recent[k].role, content |-> recent[k].content]]

AnswerCall(cs, chat_history, ok) ==
    [op |-> "answer_question", raised |-> ~ok,
     content_text |-> PrepareContext(cs, DefaultMaxChars),
     chat_history |-> chat_history]

----------------------------------------------------------------------------
(* core/redis_client.py: get_cache, set_cache *)

\* f"rate_limit:summarize:{user_id}"
SummarizeRateKey(user_id) == <<"rate_limit:summarize", user_id>>

\* md5(f"summary:{user_id}:{chunk_hash}:{summary_style}"), chunk_hash the md5 of
\* the chunk texts joined without a separator
SummaryCacheKey(user_id, cs, style) ==
    <<"md5", "summary", user_id, <<"md5", Flatten([k \in 1..Len(cs) |-> cs[k].text])>>, style>>

\* get_cache(key): <<>> for None
GetCache(store, key) == IF key \in DOMAIN store THEN <<store[key]>> ELSE <<>>

\* set_cache(key, value)
SetCache(store, key, value) ==
    [k \in DOMAIN store \cup {key} |-> IF k = key THEN value ELSE store[k]]

----------------------------------------------------------------------------
(* api/v1/summarize.py: summarize_content; api/v1/qa.py: answer_question *)

MAX_MESSAGES_PER_CHAT == 50

\* the chunks a client sends: none, or the chunks of a short page
RequestChunks == {<<>>, <<TextChunk(ChunkId("https://a.example/p", 0), <<"H", "i", ".">>, 0, 3)>>}

SummaryStyles == {"short"}

SummaryMessage(result) ==
    Message("assistant", result.summary, [sources |-> result.sources, type |-> "summary"])

QuestionMessage == Message("user", Question, <<>>)

AnswerMessage(result) ==
    Message("assistant", result.answer,
            [sources |-> result.sources, confidence |-> result.confidence])

ChatFull == [status |-> 400, detail |-> "Chat has reached maximum of messages"]

\* the handler, from the request to the response
SummarizeContent ==
    \E user_id \in Callers, cs \in RequestChunks, style \in SummaryStyles,
       chat_id \in {0} \cup DOMAIN chats, llm_ok \in BOOLEAN :
    \E rate_key \in {SummarizeRateKey(user_id)} :
    \E counted \in {IncrementRateLimit(redis, rate_key)} :
    \E cache_key \in {SummaryCacheKey(user_id, cs, style)} :
    \E cached_result \in {GetCache(counted, cache_key)} :
        /\ req = NoRequest
        /\ served < MaxRequests
        /\ served' = served + 1
        /\ UNCHANGED <<req, creating, chats_id_seq>>
        /\ asked' = Asked("summarize_content", user_id, chat_id)
        /\ UNCHANGED <<chunkVars, assemblerVars, redactVars, extractVars, vectorVars>>
        /\ expires' = Expire(expires, rate_key, RateWindow)
        /\ quiet' = Requested(quiet, rate_key)
        /\ IF counted[rate_key] > RATE_LIMIT_PER_MINUTE
           THEN /\ response' = [status |-> 429, detail |-> "Rate limit exceeded"]
                /\ redis' = counted
                /\ calls' = <<>>
                /\ UNCHANGED chats
           ELSE IF cs = <<>>
           THEN /\ response' = [status |-> 400, detail |-> "No content chunks provided"]
                /\ redis' = counted
                /\ calls' = <<>>
                /\ UNCHANGED chats
           ELSE IF cached_result # <<>>
           THEN /\ response' = cached_result[1]
                /\ redis' = counted
                /\ calls' = <<>>
                /\ UNCHANGED chats
           ELSE IF ~llm_ok
           THEN /\ response' = [status |-> 500, detail |-> "Summarization failed"]
                /\ redis' = counted
                /\ calls' = <<SummarizeCall(cs, llm_ok)>>
                /\ UNCHANGED chats
           ELSE \E result \in {Summarize(cs)} :
                \E answered \in {[status |-> 200, sources |-> result.sources,
                                  summary |-> result.summary]} :
                /\ redis' = SetCache(counted, cache_key, answered)
                /\ calls' = <<SummarizeCall(cs, llm_ok)>>
                /\ IF ~OwnedChat(chat_id, user_id)
                   THEN /\ response' = answered
                        /\ UNCHANGED chats
                   ELSE IF Len(chats[chat_id].messages) >= MAX_MESSAGES_PER_CHAT
                   THEN /\ response' = ChatFull
                        /\ UNCHANGED chats
                   ELSE /\ response' = answered
                        /\ chats' = [chats EXCEPT ![chat_id].messages =
                                        Append(@, SummaryMessage(result))]

\* the handler, from the request to the response
AnswerQuestion ==
    \E user_id \in Callers, cs \in RequestChunks,
       chat_id \in {0} \cup DOMAIN chats, llm_ok \in BOOLEAN :
    \E rate_key \in {QaRateKey(user_id)} :
    \E counted \in {IncrementRateLimit(redis, rate_key)} :
    \E chat_history \in {IF OwnedChat(chat_id, user_id)
                         THEN ChatHistory(chats[chat_id].messages) ELSE <<>>} :
        /\ req = NoRequest
        /\ served < MaxRequests
        /\ served' = served + 1
        /\ redis' = counted
        /\ UNCHANGED <<req, creating, chats_id_seq>>
        /\ asked' = Asked("answer_question", user_id, chat_id)
        /\ UNCHANGED <<chunkVars, assemblerVars, redactVars, extractVars, vectorVars>>
        /\ expires' = Expire(expires, rate_key, RateWindow)
        /\ quiet' = Requested(quiet, rate_key)
        /\ IF counted[rate_key] > RATE_LIMIT_PER_MINUTE
           THEN /\ response' = [status |-> 429, detail |-> "Rate limit exceeded"]
                /\ calls' = <<>>
                /\ UNCHANGED chats
           ELSE IF cs = <<>>
           THEN /\ response' = [status |-> 400, detail |-> "No content chunks provided"]
                /\ calls' = <<>>
                /\ UNCHANGED chats
           ELSE IF ~llm_ok
           THEN /\ response' = [status |-> 500, detail |-> "Question answering failed"]
                /\ calls' = <<AnswerCall(cs, chat_history, llm_ok)>>
                /\ UNCHANGED chats
           ELSE \E result \in {AnswerQuestionResult(cs)} :
                \E answered \in {[status |-> 200, answer |-> result.answer,
                                  sources |-> result.sources,
                                  confidence |-> result.confidence]} :
                /\ calls' = <<AnswerCall(cs, chat_history, llm_ok)>>
                /\ IF ~OwnedChat(chat_id, user_id)
                   THEN /\ response' = answered
                        /\ UNCHANGED chats
                   ELSE IF Len(chats[chat_id].messages) >= MAX_MESSAGES_PER_CHAT
                   THEN /\ response' = ChatFull
                        /\ UNCHANGED chats
                   ELSE /\ response' = answered
                        /\ chats' = [chats EXCEPT ![chat_id].messages =
                                        @ \o <<QuestionMessage, AnswerMessage(result)>>]

(* Chats as earlier requests leave them: a summary first when the number of
   messages is odd, then questions with their answers *)

PriorMessages(n) ==
    [k \in 1..n |->
        IF n % 2 = 1 /\ k = 1 THEN SummaryMessage(Summarize(<<>>))
        ELSE IF (n - k) % 2 = 1 THEN QuestionMessage
        ELSE AnswerMessage(AnswerQuestionResult(<<>>))]

PriorCounts == {0, MAX_MESSAGES_PER_CHAT - 1, MAX_MESSAGES_PER_CHAT}

\* the counters of the callers, and with them no summary or the cached summary
\* of an earlier request
PriorStores ==
    LET counters == [{QaRateKey(u) : u \in Callers} \cup {SummarizeRateKey(u) : u \in Callers} ->
                        {0, RATE_LIMIT_PER_MINUTE}]
        cs == CHOOSE x \in RequestChunks : x # <<>>
        result == Summarize(cs)
    IN  counters \cup
        {SetCache(r, SummaryCacheKey(u, cs, "short"),
                  [status |-> 200, sources |-> result.sources, summary |-> result.summary]) :
            r \in counters, u \in Callers}

InitMessages ==
    /\ redis \in PriorStores
    /\ \E n \in PriorCounts :
          chats = [c \in {1, 2} |->
                      [title |-> DefaultTitle, user_id |-> c,
                       messages |-> IF c = 1 THEN PriorMessages(n) ELSE <<>>]]
    /\ req = NoRequest
    /\ response = NoResponse
    /\ calls = <<>>
    /\ served = 0
    /\ creating = <<>>
    /\ chats_id_seq = 2
    /\ asked = NoAsk
    /\ ChunkerIdle
    /\ AssemblerIdle
    /\ RedactorIdle
    /\ ExtractorIdle
    /\ VectorIdle
    /\ RatesFresh

NextMessages ==
    \/ SummarizeContent
    \/ AnswerQuestion
    \/ MultipageRequest
    \/ MultipageFetchExtract
    \/ MultipageCompare

SpecMessages == InitMessages /\ [][NextMessages]_vars

----------------------------------------------------------------------------
(* Chat memory: claims *)

\* C12: whatever summarize, QA and multi-page QA requests have saved into a
\* chat, the chat holds at most MAX_MESSAGES_PER_CHAT (50) messages.
C12_MessageLimit ==
    \A c \in DOMAIN chats : Len(chats[c].messages) <= MAX_MESSAGES_PER_CHAT

----------------------------------------------------------------------------
(* api/v1/chat.py: create_chat, delete_chat.  Each await hands the event loop
   to the other requests: create_chat is two steps, the count and, after it,
   the test with the insert. *)

MAX_CHATS_PER_USER == 3

MaxInflight == 2     \* create_chat requests in progress at one time
MaxChatIds == 5      \* chat ids the database gives out in one behaviour

\* select(func.count(Chat.id)).where(Chat.user_id == user_id)
ChatCount(user_id) == Cardinality({c \in DOMAIN chats : chats[c].user_id = user_id})

\* create_chat up to the result of its count query
CreateChatCount ==
    \E user_id \in Callers :
        /\ Len(creating) < MaxInflight
        /\ chats_id_seq + Len(creating) < MaxChatIds
        /\ creating' = Append(creating, [user_id |-> user_id, chat_count |-> ChatCount(user_id)])
        /\ UNCHANGED <<redis, chats, req, response, calls, served, chats_id_seq, asked>>
        /\ UNCHANGED <<chunkVars, assemblerVars, redactVars, extractVars, vectorVars, rateVars>>

\* create_chat from the test of chat_count to the response
CreateChatInsert ==
    \E k \in 1..Len(creating) :
    \E user_id \in {creating[k].user_id}, chat_count \in {creating[k].chat_count} :
        /\ creating' = SubSeq(creating, 1, k - 1) \o SubSeq(creating, k + 1, Len(creating))
        /\ asked' = Asked("create_chat", user_id, 0)
        /\ UNCHANGED <<redis, req, calls, served>>
        /\ UNCHANGED <<chunkVars, assemblerVars, redactVars, extractVars, vectorVars, rateVars>>
        /\ IF chat_count >= MAX_CHATS_PER_USER
           THEN /\ response' = [status |-> 400, detail |-> "Maximum of chats allowed per user"]
                /\ UNCHANGED <<chats, chats_id_seq>>
           ELSE \E id \in {chats_id_seq + 1} :
                /\ chats_id_seq' = id
                /\ chats' = [c \in DOMAIN chats \cup {id} |->
                                IF c = id THEN [title |-> DefaultTitle, user_id |-> user_id,
                                               messages |-> <<>>]
                                ELSE chats[c]]
                /\ response' = [status |-> 200, id |-> id, user_id |-> user_id,
                                message_count |-> 0]

\* delete_chat: the chat of the caller goes, with its messages
DeleteChat ==
    \E user_id \in Callers, chat_id \in 1..MaxChatIds :
        /\ req = NoRequest
        /\ calls' = <<>>
        /\ UNCHANGED <<redis, req, served, creating, chats_id_seq>>
        /\ UNCHANGED <<chunkVars, assemblerVars, redactVars, extractVars, vectorVars, rateVars>>
        /\ asked' = Asked("delete_chat", user_id, chat_id)
        /\ IF chat_id \in DOMAIN chats /\ chats[chat_id].user_id = user_id
           THEN /\ chats' = [c \in DOMAIN chats \ {chat_id} |-> chats[c]]
                /\ response' = [status |-> 200, message |-> "Chat deleted successfully"]
           ELSE /\ response' = [status |-> 404, detail |-> "Chat not found"]
                /\ UNCHANGED chats

\* a caller who has up to MAX_CHATS_PER_USER chats
InitChats ==
    /\ \E n \in 0..MAX_CHATS_PER_USER, u \in Callers :
          /\ chats = [c \in 1..n |-> [title |-> DefaultTitle, user_id |-> u, messages |-> <<>>]]
          /\ chats_id_seq = n
    /\ creating = <<>>
    /\ asked = NoAsk
    /\ redis = <<>>
    /\ req = NoRequest
    /\ response = NoResponse
    /\ calls = <<>>
    /\ served = 0
    /\ ChunkerIdle
    /\ AssemblerIdle
    /\ RedactorIdle
    /\ ExtractorIdle
    /\ VectorIdle
    /\ RatesFresh

NextChats == CreateChatCount \/ CreateChatInsert \/ DeleteChat

SpecChats == InitChats /\ [][NextChats]_vars

\* C13: under every interleaving of create_chat and delete_chat requests, a
\* user has at most MAX_CHATS_PER_USER (3) chats.
C13_ChatLimit ==
    \A u \in Callers : ChatCount(u) <= MAX_CHATS_PER_USER

----------------------------------------------------------------------------
(* Failure reporting: claims *)

\* the stage at which the request failed, as the calls made for it tell
FailedStage ==
    IF \E k \in 1..Len(calls) : calls[k].op = "fetch" /\ ~calls[k].ok THEN "fetch"
    ELSE IF \E k \in 1..Len(calls) : calls[k].op = "extract_from_html" /\ calls[k].raised
    THEN "extract"
    ELSE IF \E k \in 1..Len(calls) : calls[k].op = "compare_pages" /\ calls[k].raised
    THEN "generate"
    ELSE "none"

\* the stages that the handlers report with this status code and failure kind
StagesReported(status, detail) ==
    {stage \in {"fetch", "extract", "generate"} :
        \/ stage = "fetch" /\ status = 400 /\ detail = "Failed to fetch URL"
        \/ stage = "extract" /\ status = 500 /\ detail = "Content extraction failed"
        \/ stage = "fetch" /\ status = 400 /\ detail = "Failed to fetch/extract content"
        \/ stage = "extract" /\ status = 400 /\ detail = "Failed to fetch/extract content"
        \/ stage = "generate" /\ status = 500 /\ detail = "Multi-page comparison failed"}

\* C14: when a request fails at fetching a page, at extracting it or at
\* generating the answer, the status code and the failure kind of the response
\* stand for that stage and for no other.
C14_FailuresDistinguished ==
    FailedStage # "none" =>
        StagesReported(response.status, response.detail) = {FailedStage}

\* the table above reports no stage that the handlers do not report that way
StagesReportedSound ==
    FailedStage # "none" =>
        FailedStage \in StagesReported(response.status, response.detail)

----------------------------------------------------------------------------
(* The chunker: more claims *)

\* C15: the id of the k-th emitted chunk (k from 0, emitted chunks only) is the
\* digest of the source id and k, whatever the text and the windows skipped
\* before it, and the indices used are exactly 0..n-1.
C15_ChunkIdentity ==
    /\ chunk_index = Len(chunks)
    /\ \A k \in 1..Len(chunks) : chunks[k].id = ChunkId(url, k - 1)

\* a finished run that emitted a chunk, skipped a window of whitespace and then
\* emitted another chunk
C15_Witness ==
    /\ cpc = "done"
    /\ Len(chunks) >= 2
    /\ \E i, j, k \in 1..Len(windows) :
          /\ i < j /\ j < k
          /\ windows[i].emitted /\ ~windows[j].emitted /\ windows[k].emitted

----------------------------------------------------------------------------
(* ContentExtractor.detect_sensitive_inputs, called on its own *)

\* list(s): the elements of a set in the order the interpreter happens to
\* iterate it, which is any order
ListOf(S) ==
    {q \in [1..Cardinality(S) -> S] : \A x \in S : \E k \in DOMAIN q : q[k] = x}

\* a call of detect_sensitive_inputs
DetectSensitiveInputsCall ==
    /\ ehtml # <<>>
    /\ eresult.kind = "none"
    /\ \E sensitive_fields \in ListOf(DetectSensitiveInputs(ehtml[1])) :
          eresult' = [kind |-> "detected", sensitive_fields |-> sensitive_fields]
    /\ UNCHANGED <<ehtml, eurl>>
    /\ UNCHANGED <<chunkVars, assemblerVars, redactVars, apiVars, vectorVars, rateVars>>

(* Inputs of the detector: pages of up to MaxElements elements *)

FormElements ==
    { Element("input", <<>>, {<<"type", <<"p", "a", "s", "s", "w", "o", "r", "d">>>>}),
      Element("input", <<>>, {<<"type", <<"P", "a", "s", "s", "w", "o", "r", "d">>>>}),
      Element("input", <<>>, {<<"type", <<"t", "e", "x", "t">>>>, <<"name", <<"c", "v", "v">>>>}),
      Element("input", <<>>, {<<"id", <<"C", "a", "r", "d", "N", "u", "m", "b", "e", "r">>>>}),
      Element("input", <<>>, {<<"name", <<"c", "c">>>>, <<"id", <<"v">>>>}),
      Element("input", <<>>, {<<"name", <<"q">>>>}),
      Element("input", <<>>, {}),
      Element("button", <<"c", "a", "r", "d">>, {<<"type", <<"p", "a", "s", "s", "w", "o", "r", "d">>>>,
                                                 <<"name", <<"c", "r", "e", "d", "i", "t">>>>}),
      Element("p", <<"p", "a", "s", "s", "w", "o", "r", "d">>, {}) }

Forms(n) == {Html(<<"T">>, b) : b \in SeqsUpTo(FormElements, n)}

InitDetect ==
    /\ ehtml \in {<<h>> : h \in Forms(MaxElements)}
    /\ eurl \in Urls
    /\ eresult = [kind |-> "none"]
    /\ ChunkerIdle
    /\ AssemblerIdle
    /\ RedactorIdle
    /\ ApiIdle
    /\ VectorIdle
    /\ RatesFresh

NextDetect == DetectSensitiveInputsCall

SpecDetect == InitDetect /\ [][NextDetect]_vars

\* the input elements of a page
InputsOf(html) == {html.body[k] : k \in {i \in 1..Len(html.body) : html.body[i].tag = "input"}}

\* the lower-cased name and id of an input, a space between them
NameAndId(e) == LowerStr(GetAttr(e, "name", <<>>) \o <<" ">> \o GetAttr(e, "id", <<>>))

\* C16: detect_sensitive_inputs returns a list without duplicates that holds
\* 'password' exactly when some input element has the type 'password',
\* 'credit_card' exactly when the lower-cased name + ' ' + id of some input
\* element contains 'card', 'cvv', 'ccv' or 'credit', and nothing else.
C16_DetectorResult ==
    eresult.kind = "detected" =>
        LET fields == eresult.sensitive_fields
            found == {fields[k] : k \in 1..Len(fields)}
        IN  /\ \A i, j \in 1..Len(fields) : fields[i] = fields[j] => i = j
            /\ found \subseteq {"password", "credit_card"}
            /\ "password" \in found <=>
                  \E e \in InputsOf(ehtml[1]) :
                      <<"type", <<"p", "a", "s", "s", "w", "o", "r", "d">>>> \in e.attrs
            /\ "credit_card" \in found <=>
                  \E e \in InputsOf(ehtml[1]) :
                      \/ Occurs(<<"c", "a", "r", "d">>, NameAndId(e))
                      \/ Occurs(<<"c", "v", "v">>, NameAndId(e))
                      \/ Occurs(<<"c", "c", "v">>, NameAndId(e))
                      \/ Occurs(<<"c", "r", "e", "d", "i", "t">>, NameAndId(e))

\* a page with a password input and an input whose id holds 'Card' in capitals:
\* both kinds are returned
C16_Witness ==
    /\ eresult.kind = "detected"
    /\ Len(eresult.sensitive_fields) = 2
    /\ \E e \in InputsOf(ehtml[1]) :
          Occurs(<<"C", "a", "r", "d">>, GetAttr(e, "id", <<>>))

----------------------------------------------------------------------------
(* The chunker run to completion: _create_chunks is synchronous code, so a
   call that can take a step takes it *)

MaxDefaultLen == 4000   \* longest text of the runs followed to their end

InitDefaultFair ==
    /\ text \in {t \in RunTexts(MaxRuns) : Len(t) <= MaxDefaultLen}
    /\ url \in Urls
    /\ chunk_size = DefaultChunkSize
    /\ overlap = DefaultOverlap
    /\ start = 0
    /\ chunk_index = 0
    /\ chunks = <<>>
    /\ windows = <<>>
    /\ cpc = "loop"
    /\ AssemblerIdle
    /\ RedactorIdle
    /\ ExtractorIdle
    /\ ApiIdle
    /\ VectorIdle
    /\ RatesFresh

\* the loop can take a pass: the guards of CreateChunksLoop, which always
\* has a next state when they hold
LoopEnabled == cpc = "loop" /\ start < Len(text) /\ Len(windows) < MaxWindows

\* WF_vars(CreateChunksLoop), its ENABLED written as the guards of the action
LoopFairness == []<>(~LoopEnabled) \/ []<><<CreateChunksLoop>>_vars

SpecDefaultFair ==
    InitDefaultFair /\ [][NextChunk]_vars /\ WF_vars(CreateChunksReturn) /\ LoopFairness

\* C17: with chunk_size 1000 and overlap 200 the chunker returns on every
\* text, without raising; on the empty text it returns the empty list
C17_Terminates ==
    /\ <>(cpc = "done")
    /\ [](cpc # "raised")
    /\ []((text = <<>> /\ cpc = "done") => chunks = <<>>)

\* a call that returned after four windows or more, one of them cut at a
\* sentence terminator and one of them skipped
C17_Witness ==
    /\ DefaultConfig
    /\ cpc = "done"
    /\ Len(windows) >= 4
    /\ \E k \in 1..Len(windows) : ~windows[k].emitted
    /\ \E k \in 1..Len(windows) :
          windows[k].end # NominalEnd(text, windows[k].start, chunk_size)

----------------------------------------------------------------------------
(* The chunker: the start of the next window *)

\* C18: with 0 <= overlap < size, the start of a window is never negative:
\* every value end - overlap assigned as the next start is >= 0
C18_StartNonNegative ==
    ValidConfig => start >= 0

----------------------------------------------------------------------------
(* The chunker: the end of a window *)

\* the positions of the text the backward search of the window at s looks at
\* and that hold a sentence terminator
TerminatorsSearched(s) ==
    {i \in (Max(s + chunk_size - SentenceWindow, s) + 1)..(s + chunk_size) :
        0 <= i /\ i < Len(text) /\ text[i + 1] \in Terminators}

\* C19: a window whose nominal end start + size lies before the end of the
\* text ends right after the terminator nearest the nominal end among the
\* positions above max(start + size - 200, start), and at the nominal end
\* when there is none; a window whose nominal end is the end of the text
\* ends there
C19_BoundaryRefinement ==
    \A k \in 1..Len(windows) :
        LET s == windows[k].start
        IN  IF s + chunk_size < Len(text)
            THEN IF TerminatorsSearched(s) # {}
                 THEN windows[k].end = SetMax(TerminatorsSearched(s)) + 1
                 ELSE windows[k].end = s + chunk_size
            ELSE windows[k].end = Len(text)

----------------------------------------------------------------------------
(* The chunker on texts without sentence terminators and whitespace: small
   configurations on short words, the defaults on long ones *)

LongWordLens == {999, 1000, 1001, 1800, 2500}

InitWords ==
    /\ \/ /\ text \in SeqsUpTo({"a", "b"}, MaxLen)
          /\ chunk_size \in 0..MaxSize
          /\ overlap \in 0..MaxSize
       \/ /\ text \in {Repeat("a", n) : n \in LongWordLens}
          /\ chunk_size = DefaultChunkSize
          /\ overlap = DefaultOverlap
    /\ url \in Urls
    /\ start = 0
    /\ chunk_index = 0
    /\ chunks = <<>>
    /\ windows = <<>>
    /\ cpc = "loop"
    /\ AssemblerIdle
    /\ RedactorIdle
    /\ ExtractorIdle
    /\ ApiIdle
    /\ VectorIdle
    /\ RatesFresh

SpecWords == InitWords /\ [][NextChunk]_vars

PlainWord ==
    \A k \in 1..Len(text) : text[k] \notin Terminators \cup Whitespace

\* C20: on a text of length L without terminators and whitespace, chunked
\* with overlap < size, the k-th chunk (from 0) spans
\* [k * (size - overlap), min(k * (size - overlap) + size, L)), only the last
\* chunk of a returned call ends at L, and a text of 2500 characters chunked
\* with 1000/200 gives three chunks that start at 0, 800 and 1600, the last
\* ending at 2500
C20_WordSpans ==
    (PlainWord /\ overlap < chunk_size) =>
        /\ \A k \in 1..Len(chunks) :
              /\ chunks[k].start_char = (k - 1) * (chunk_size - overlap)
              /\ chunks[k].end_char =
                    Min((k - 1) * (chunk_size - overlap) + chunk_size, Len(text))
        /\ \A k \in 1..(Len(chunks) - 1) : chunks[k].end_char < Len(text)
        /\ (cpc = "done" /\ Len(text) > 0) =>
              (Len(chunks) >= 1 /\ chunks[Len(chunks)].end_char = Len(text))
        /\ (cpc = "done" /\ DefaultConfig /\ Len(text) = 2500) =>
              /\ Len(chunks) = 3
              /\ chunks[1].start_char = 0
              /\ chunks[2].start_char = 800
              /\ chunks[3].start_char = 1600
              /\ chunks[3].end_char = 2500

\* the call on 2500 characters with the defaults has returned its chunks
C20_Witness ==
    /\ PlainWord
    /\ DefaultConfig
    /\ Len(text) = 2500
    /\ cpc = "done"
    /\ Len(chunks) = 3

----------------------------------------------------------------------------
(* The chunker: the text of a chunk *)

\* s is t with whitespace, and nothing else, removed from its two ends
TrimmedOf(s, t) ==
    /\ s # <<>>
    /\ s[1] \notin Whitespace
    /\ s[Len(s)] \notin Whitespace
    /\ \E a \in 0..(Len(t) - Len(s)) :
          /\ SubSeq(t, a + 1, a + Len(s)) = s
          /\ \A k \in (1..a) \cup ((a + Len(s) + 1)..Len(t)) : t[k] \in Whitespace

\* text[w.start:w.end] holds a character that is not whitespace
HoldsText(w) ==
    \E c \in {PySlice(text, w.start, w.end)} : \E k \in 1..Len(c) : c[k] \notin Whitespace

\* C21: the text of every chunk is non-empty, starts and ends with a character
\* that is not whitespace, and is text[start_char:end_char] trimmed; a window
\* of whitespace only emits no chunk, and after every window, emitted or not,
\* the start is end - overlap when the window ends before the end of the text
\* and end otherwise
C21_ChunkText ==
    /\ \A k \in 1..Len(chunks) :
          TrimmedOf(chunks[k].text, PySlice(text, chunks[k].start_char, chunks[k].end_char))
    /\ Cardinality({k \in 1..Len(windows) : HoldsText(windows[k])}) = Len(chunks)
    /\ \A k \in 1..Len(windows) :
          (IF k < Len(windows) THEN windows[k + 1].start ELSE start)
              = (IF windows[k].end < Len(text)
                 THEN windows[k].end - overlap
                 ELSE windows[k].end)

\* a call that returned, with a window of whitespace skipped between two
\* chunks and a chunk shorter than its span
C21_Witness ==
    /\ cpc = "done"
    /\ \E i, j, k \in 1..Len(windows) :
          /\ i < j /\ j < k
          /\ HoldsText(windows[i]) /\ ~HoldsText(windows[j]) /\ HoldsText(windows[k])
    /\ \E k \in 1..Len(chunks) :
          Len(chunks[k].text) < chunks[k].end_char - chunks[k].start_char

----------------------------------------------------------------------------
(* The redactor: placeholders *)

\* the number of replacements pattern.sub makes in t from offset p on
RECURSIVE SubCount(_, _, _)
SubCount(name, t, p) ==
    LET starts == MatchStarts(name, t, p)
    IN  IF starts = {} THEN 0
        ELSE 1 + SubCount(name, t, Match(name, t, SetMin(starts)))

\* the number of occurrences of sub in s
Count(sub, s) ==
    Cardinality({i \in 0..(Len(s) - Len(sub)) : SubSeq(s, i + 1, i + Len(sub)) = sub})

\* C22: the patterns are applied in the order credit card, SSN, email, each to
\* the text the one before left; a pass adds one placeholder of its own kind
\* for every match it replaces and leaves the number of placeholders of the
\* other kinds as it was: no placeholder is matched or altered by another pass
C22_PlaceholdersIntact ==
    [][\A n \in 1..3 :
          LET name == <<"credit_card", "ssn", "email">>[n]
          IN  Count(Placeholder(name), rtext')
                  = Count(Placeholder(name), rtext)
                      + (IF n = rapplied + 1 THEN SubCount(name, rtext, 0) ELSE 0)]_<<rtext, rapplied>>

\* all passes made on a text in which a card number stood right before
\* "@b.co": the placeholder is followed by it
C22_Witness ==
    /\ RedactReturned
    /\ Occurs(Placeholder("credit_card") \o <<"@", "b", ".", "c", "o">>, rtext)

----------------------------------------------------------------------------
(* The context assembler: the length of the context *)

\* C23: the string the context assembler returns, separators included, is
\* never longer than max_chars
C23_ContextWithinBudget ==
    apc = "done" => Len(context) <= max_chars

----------------------------------------------------------------------------
(* VectorStoreService: add_chunks and search on the Qdrant collection *)

MaxPoints == 3       \* points the collection holds at most

\* the page_id embed_document stores a standalone document under
StandalonePage == 0

UserIds == {1, 2}
PageIds == {StandalonePage, 1}
DocIds == {"d1", "d2"}
SearchLimits == {1, 2}

\* hashlib.md5(f"{user_id}:{page_id}:{chunk.id}"): the id of a point
VectorId(user_id, page_id, chunk_id) == <<"md5", user_id, page_id, chunk_id>>

\* the payload of a point
Payload(chunk, page_id, user_id) ==
    [text |-> chunk.text, start_char |-> chunk.start_char, end_char |-> chunk.end_char,
     user_id |-> user_id, chunk_id |-> chunk.id, page_id |-> page_id]

\* client.upsert: the point is written under its id, replacing one that has it
Upsert(store, id, payload) ==
    [i \in DOMAIN store \cup {id} |-> IF i = id THEN payload ELSE store[i]]

\* add_chunks([chunk], page_id, user_id) with the one chunk embed_document
\* builds from a document; embed_document itself passes page_id 0
AddChunks ==
    \E user_id \in UserIds, page_id \in PageIds, doc_id \in DocIds :
    \E chunk \in {TextChunk(doc_id, <<"t">>, 0, 1)} :
    \E id \in {VectorId(user_id, page_id, chunk.id)} :
        /\ id \in DOMAIN points \/ Cardinality(DOMAIN points) < MaxPoints
        /\ points' = Upsert(points, id, Payload(chunk, page_id, user_id))
        /\ UNCHANGED hits
        /\ UNCHANGED <<chunkVars, assemblerVars, redactVars, extractVars, apiVars, rateVars>>

\* search_filter: must user_id; must page_id `if page_id:`, which None and 0
\* both fail.  An optional value is <<>> (None) or <<v>>.
SearchFilter(user_id, page_id) ==
    [user_id |-> <<user_id>>,
     page_id |-> IF page_id = <<>> \/ page_id[1] = 0 THEN <<>> ELSE page_id]

\* the points a filter lets through
Matching(store, filter) ==
    {i \in DOMAIN store :
        /\ store[i].user_id = filter.user_id[1]
        /\ filter.page_id # <<>> => store[i].page_id = filter.page_id[1]}

\* client.search: the limit best-scoring points among the matching ones; the
\* score is the embedding model's, so any ranking of any of them can come back
Ranked(S, limit) ==
    {q \in UNION {[1..n -> S] : n \in {Min(limit, Cardinality(S))}} :
        \A i, j \in DOMAIN q : q[i] = q[j] => i = j}

\* one formatted result
Formatted(store, id) ==
    [text |-> store[id].text, start_char |-> store[id].start_char,
     end_char |-> store[id].end_char, chunk_id |-> store[id].chunk_id,
     page_id |-> store[id].page_id]

\* search(query, user_id, limit, page_id)
Search ==
    \E user_id \in UserIds, limit \in SearchLimits,
       page_id \in {<<>>} \cup {<<p>> : p \in PageIds} :
    \E results \in Ranked(Matching(points, SearchFilter(user_id, page_id)), limit) :
        /\ hits' = [kind |-> "searched", user_id |-> user_id, page_id |-> page_id,
                    limit |-> limit, results |-> results,
                    formatted_results |->
                        [k \in DOMAIN results |-> Formatted(points, results[k])]]
        /\ UNCHANGED points
        /\ UNCHANGED <<chunkVars, assemblerVars, redactVars, extractVars, apiVars, rateVars>>

InitVector ==
    /\ points = <<>>
    /\ hits = [kind |-> "none"]
    /\ ChunkerIdle
    /\ AssemblerIdle
    /\ RedactorIdle
    /\ ExtractorIdle
    /\ ApiIdle
    /\ RatesFresh

NextVector == AddChunks \/ Search

SpecVector == InitVector /\ [][NextVector]_vars

\* C24: search returns only points of the requested user and, when a page_id
\* is given (0, the page of standalone documents, included), only points of
\* that page
C24_SearchFiltered ==
    hits.kind = "searched" =>
        \A k \in DOMAIN hits.results :
            /\ points[hits.results[k]].user_id = hits.user_id
            /\ hits.page_id # <<>> =>
                  hits.formatted_results[k].page_id = hits.page_id[1]

----------------------------------------------------------------------------
(* The chunker: the length of a span *)

\* C25: every chunk spans at most chunk_size characters of the text,
\* end_char - start_char <= chunk_size, the chunks whose end was moved to a
\* sentence terminator included (checked for 0 <= overlap < chunk_size, where
\* no start is out of the text before the first such chunk)
C25_SpanWithinSize ==
    ValidConfig =>
        \A k \in 1..Len(chunks) :
            chunks[k].end_char - chunks[k].start_char <= chunk_size

----------------------------------------------------------------------------
(* api/v1/chat.py: get_chat_history, update_chat_title.  The chat of another
   user: every handler looks the chat up by its id and the user of the token. *)

\* get_chat_history: the chat and its messages, oldest first; chat_id is an id
\* the database has given out
GetChatHistory ==
    \E user_id \in Callers, chat_id \in 1..chats_id_seq :
        /\ req = NoRequest
        /\ calls' = <<>>
        /\ UNCHANGED <<redis, chats, req, served, creating, chats_id_seq>>
        /\ UNCHANGED <<chunkVars, assemblerVars, redactVars, extractVars, vectorVars, rateVars>>
        /\ asked' = Asked("get_chat_history", user_id, chat_id)
        /\ IF OwnedChat(chat_id, user_id)
           THEN response' = [status |-> 200,
                             messages |-> chats[chat_id].messages,
                             chat |-> [id |-> chat_id, title |-> chats[chat_id].title,
                                       user_id |-> chats[chat_id].user_id,
                                       message_count |-> Len(chats[chat_id].messages)]]
           ELSE response' = [status |-> 404, detail |-> "Chat not found"]

\* ChatCreate.title: Optional[str], None as <<>>
TitlesGiven == {<<>>, <<"">>, <<"Renamed">>}

\* update_chat_title: chat.title = chat_data.title or chat.title
UpdateChatTitle ==
    \E user_id \in Callers, chat_id \in 1..chats_id_seq, title \in TitlesGiven :
        /\ req = NoRequest
        /\ calls' = <<>>
        /\ UNCHANGED <<redis, req, served, creating, chats_id_seq>>
        /\ UNCHANGED <<chunkVars, assemblerVars, redactVars, extractVars, vectorVars, rateVars>>
        /\ asked' = Asked("update_chat_title", user_id, chat_id)
        /\ IF OwnedChat(chat_id, user_id)
           THEN /\ chats' = [chats EXCEPT ![chat_id].title =
                                IF title = <<>> \/ title[1] = "" THEN @ ELSE title[1]]
                /\ response' = [status |-> 200, message |-> "Chat title updated successfully"]
           ELSE /\ response' = [status |-> 404, detail |-> "Chat not found"]
                /\ UNCHANGED chats

\* what another user keeps in a chat
TheirMessages ==
    <<Message("user", "their question", <<>>), Message("assistant", "their answer", <<>>)>>

\* the caller has chat 1 with a question and its answer; chat 2 is another
\* user's
InitOwner ==
    /\ redis = [k \in {QaRateKey(u) : u \in Callers} \cup {SummarizeRateKey(u) : u \in Callers}
                    |-> 0]
    /\ \E n \in {2} :
          chats = [c \in {1, 2} |->
                      [title |-> IF c = 1 THEN DefaultTitle ELSE "Theirs", user_id |-> c,
                       messages |-> IF c = 1 THEN PriorMessages(n) ELSE TheirMessages]]
    /\ req = NoRequest
    /\ response = NoResponse
    /\ calls = <<>>
    /\ served = 0
    /\ creating = <<>>
    /\ chats_id_seq = 2
    /\ asked = NoAsk
    /\ ChunkerIdle
    /\ AssemblerIdle
    /\ RedactorIdle
    /\ ExtractorIdle
    /\ VectorIdle
    /\ RatesFresh

NextOwner ==
    \/ GetChatHistory
    \/ DeleteChat
    \/ UpdateChatTitle
    \/ SummarizeContent
    \/ AnswerQuestion
    \/ MultipageRequest
    \/ MultipageFetchExtract
    \/ MultipageCompare

SpecOwner == InitOwner /\ [][NextOwner]_vars

\* the chats that are not the chats of the user of the request
ChatsOfOthers(user_id) == {c \in DOMAIN chats : chats[c].user_id # user_id}

\* a message of chat c is among the messages ms
Carries(ms, c) ==
    \E i \in DOMAIN ms, j \in DOMAIN chats[c].messages :
        /\ ms[i].role = chats[c].messages[j].role
        /\ ms[i].content = chats[c].messages[j].content

\* C26: a request of user u leaves every chat of another user as it was; when
\* it is get_chat_history, delete_chat or update_chat_title on such a chat the
\* answer is 404; no response carries the messages of such a chat, no history
\* handed to the language model holds one of them
C26_OwnerOnly ==
    [][asked'.op # "none" =>
          \A c \in ChatsOfOthers(asked'.user_id) :
             /\ c \in DOMAIN chats' /\ chats'[c] = chats[c]
             /\ (asked'.chat_id = c
                    /\ asked'.op \in {"get_chat_history", "delete_chat", "update_chat_title"})
                   => response'.status = 404
             /\ "messages" \in DOMAIN response' => ~Carries(response'.messages, c)
             /\ \A k \in DOMAIN calls' :
                   "chat_history" \in DOMAIN calls'[k] => ~Carries(calls'[k].chat_history, c)]_vars

\* a question that named the chat of another user was answered
C26_Witness ==
    /\ asked.op = "answer_question"
    /\ asked.chat_id \in ChatsOfOthers(asked.user_id)
    /\ response.status = 200
    /\ Len(calls) = 1

----------------------------------------------------------------------------
(* api/v1/summarize.py: the summary and the chat, the summary and the cache *)

\* the request that ran last is a summarize request answered with a summary
SummaryReturned ==
    asked.op = "summarize_content" /\ response.status = 200

\* C27: a summarize request that returns a summary and names a chat of the
\* caller with fewer than MAX_MESSAGES_PER_CHAT messages appends one assistant
\* message with that summary to the chat, whether the summary came from the
\* language model or from the cache
C27_SummarySaved ==
    [][(/\ SummaryReturned'
        /\ OwnedChat(asked'.chat_id, asked'.user_id)
        /\ Len(chats[asked'.chat_id].messages) < MAX_MESSAGES_PER_CHAT)
          => \E message \in {[role |-> "assistant", content |-> response'.summary]} :
             LET before == chats[asked'.chat_id].messages
                 after  == chats'[asked'.chat_id].messages
             IN  /\ Len(after) = Len(before) + 1
                 /\ SubSeq(after, 1, Len(before)) = before
                 /\ after[Len(after)].role = message.role
                 /\ after[Len(after)].content = message.content]_vars

\* the summaries the cache holds: the entries under the md5 keys
CacheOf(store) ==
    [k \in {key \in DOMAIN store : key[1] = "md5"} |-> store[k]]

\* C28: a summarize request that ends with an error response (429, no chunks,
\* the language model failed, the chat is full) leaves the summary cache as it
\* was
C28_ErrorLeavesCache ==
    [][(asked'.op = "summarize_content" /\ response'.status # 200)
          => CacheOf(redis') = CacheOf(redis)]_vars

----------------------------------------------------------------------------
(* core/redis_client.py: increment_rate_limit, over time.  Requests that stop
   at the rate limit or at the validation behind it, and the seconds passing
   between them. *)

MaxCount == 62       \* highest count a key is taken to

\* answer_question without chunks, answer_multipage_question with one url:
\* the counter, the 429 and, for a caller within the limit, the 400
InvalidRequest ==
    \E user_id \in Callers, op \in {"answer_question", "answer_multipage_question"} :
    \E key \in {QaRateKey(user_id)} :
    \E count \in {IncrementRateLimit(redis, key)[key]} :
        /\ req = NoRequest
        /\ redis[key] < MaxCount
        /\ redis' = IncrementRateLimit(redis, key)
        /\ expires' = Expire(expires, key, RateWindow)
        /\ quiet' = Requested(quiet, key)
        /\ asked' = Asked(op, user_id, 0)
        /\ calls' = <<>>
        /\ response' =
              IF count > RATE_LIMIT_PER_MINUTE
              THEN [status |-> 429, detail |-> "Rate limit exceeded"]
              ELSE IF op = "answer_question"
              THEN [status |-> 400, detail |-> "No content chunks provided"]
              ELSE [status |-> 400, detail |-> "At least 2 page URLs are required"]
        /\ UNCHANGED <<chats, req, served, creating, chats_id_seq>>
        /\ UNCHANGED <<chunkVars, assemblerVars, redactVars, extractVars, vectorVars>>

\* a second passes: every key has a second less to live, and a key whose time
\* is up is gone (a counter of 0)
Tick ==
    /\ expires' = [key \in DOMAIN expires |-> Max(expires[key] - 1, 0)]
    /\ quiet' = [key \in DOMAIN quiet |-> Min(quiet[key] + 1, RateWindow)]
    /\ redis' = [key \in DOMAIN redis |->
                    IF key \in DOMAIN expires /\ expires[key] <= 1 THEN 0 ELSE redis[key]]
    /\ UNCHANGED <<chats, req, response, calls, served, creating, chats_id_seq, asked>>
    /\ UNCHANGED <<chunkVars, assemblerVars, redactVars, extractVars, vectorVars>>

\* a caller who has sent no request in the last minute, or whose count is one
\* below the limit
InitRate ==
    /\ redis \in [{QaRateKey(u) : u \in Callers} -> {0, RATE_LIMIT_PER_MINUTE - 1}]
    /\ chats = <<>>
    /\ req = NoRequest
    /\ response = NoResponse
    /\ calls = <<>>
    /\ served = 0
    /\ creating = <<>>
    /\ chats_id_seq = 0
    /\ asked = NoAsk
    /\ ChunkerIdle
    /\ AssemblerIdle
    /\ RedactorIdle
    /\ ExtractorIdle
    /\ VectorIdle
    /\ RatesFresh

NextRate == InvalidRequest \/ Tick

SpecRate == InitRate /\ [][NextRate]_vars

\* C29: every call of increment_rate_limit adds one to the counter of its key
\* and gives the key the whole window of 60 seconds again, the calls of
\* requests answered 429 or 400 among them; a counter goes back to 0 only when
\* 60 seconds have passed without a request on its key; a request on a key
\* that is over RATE_LIMIT_PER_MINUTE, less than 60 seconds after the last
\* one, is answered 429.  (A step that leaves quiet[key] at 0 is a request.)
C29_SlidingWindow ==
    [][\A key \in DOMAIN expires :
          /\ redis[key] > 0 => expires[key] = RateWindow - quiet[key]
          /\ quiet'[key] = 0
                => /\ redis'[key] = redis[key] + 1
                   /\ expires'[key] = RateWindow
          /\ (redis[key] > 0 /\ redis'[key] = 0) => quiet'[key] = RateWindow
          /\ (quiet'[key] = 0 /\ redis[key] > RATE_LIMIT_PER_MINUTE /\ quiet[key] < RateWindow)
                => response'.status = 429]_vars

\* a caller over the limit was rejected once more
C29_Witness ==
    \E key \in DOMAIN redis :
        /\ redis[key] = RATE_LIMIT_PER_MINUTE + 2
        /\ response.status = 429
        /\ quiet[key] = 0
        /\ asked.op = "answer_multipage_question"

----------------------------------------------------------------------------
(* LLMService.summarize, LLMService.answer_question: the sources next to the
   context.  The chunks are a client's: texts of any length. *)

MaxSent == 4         \* chunks a client sends in one request

\* lengths of the texts: a short one, half the budget, just over the budget
SentLens == {1, DefaultMaxChars \div 2, DefaultMaxChars + 1}

RECURSIVE SentLists(_)
SentLists(n) ==
    IF n = 0 THEN {<<>>}
    ELSE LET shorter == SentLists(n - 1)
         IN  shorter \cup
             {Append(cs, TextChunk(<<"id", Len(cs)>>, Repeat("a", l), 0, l)) :
                 cs \in {x \in shorter : Len(x) = n - 1}, l \in SentLens}

\* summarize(chunks, style): the context, the call of the model, the dict
\* returned as the handler passes it on
SummarizeService ==
    /\ apc = "call"
    /\ \E r \in {PrepareLoop(achunks, 1, 0, <<>>, max_chars)} :
          /\ context_parts' = r.parts
          /\ total_chars' = r.total
    /\ context' = PrepareContext(achunks, max_chars)
    /\ apc' = "done"
    /\ calls' = <<SummarizeCall(achunks, TRUE)>>
    /\ \E result \in {Summarize(achunks)} :
          response' = [status |-> 200, sources |-> result.sources,
                       summary |-> result.summary]
    /\ asked' = Asked("summarize_content", 0, 0)
    /\ UNCHANGED <<achunks, max_chars>>
    /\ UNCHANGED <<redis, chats, req, served, creating, chats_id_seq>>
    /\ UNCHANGED <<chunkVars, redactVars, extractVars, vectorVars, rateVars>>

\* answer_question(chunks, question)
AnswerQuestionService ==
    /\ apc = "call"
    /\ \E r \in {PrepareLoop(achunks, 1, 0, <<>>, max_chars)} :
          /\ context_parts' = r.parts
          /\ total_chars' = r.total
    /\ context' = PrepareContext(achunks, max_chars)
    /\ apc' = "done"
    /\ calls' = <<AnswerCall(achunks, <<>>, TRUE)>>
    /\ \E result \in {AnswerQuestionResult(achunks)} :
          response' = [status |-> 200, answer |-> result.answer,
                       sources |-> result.sources, confidence |-> result.confidence]
    /\ asked' = Asked("answer_question", 0, 0)
    /\ UNCHANGED <<achunks, max_chars>>
    /\ UNCHANGED <<redis, chats, req, served, creating, chats_id_seq>>
    /\ UNCHANGED <<chunkVars, redactVars, extractVars, vectorVars, rateVars>>

InitSources ==
    /\ achunks \in SentLists(MaxSent)
    /\ max_chars = DefaultMaxChars
    /\ context_parts = <<>>
    /\ total_chars = 0
    /\ context = <<>>
    /\ apc = "call"
    /\ ChunkerIdle
    /\ RedactorIdle
    /\ ExtractorIdle
    /\ ApiIdle
    /\ VectorIdle
    /\ RatesFresh

NextSources == SummarizeService \/ AnswerQuestionService

SpecSources == InitSources /\ [][NextSources]_vars

\* C30: every source returned by summarize or answer_question is the source
\* of a chunk whose text is one of the parts of the context sent to the model
C30_SourcesInContext ==
    apc = "done" =>
        /\ calls[1].content_text = context
        /\ \A i \in DOMAIN response.sources :
              \E k \in 1..Len(context_parts) :
                  /\ achunks[k].id = response.sources[i].chunk_id
                  /\ context_parts[k] = achunks[k].text

====
